---- MODULE Spec2Model ----
(***************************************************************************)
(* Dataset preparation (causalimpact_gibbs/data.py) and plot-frame          *)
(* construction (causalimpact/plot.py) of tfp-causalimpact-customized.     *)
(*                                                                         *)
(* A table (pandas DataFrame) is a record                                  *)
(*   [columns |-> sequence of column names,                                *)
(*    index   |-> sequence of index labels, one per row,                   *)
(*    dtype   |-> [column name -> "float" | "object" | "str"],             *)
(*    cells   |-> [column name -> sequence of cells, one per row]]         *)
(* and a cell is [na |-> BOOLEAN, num |-> Int]: NaN or a number.  A        *)
(* standardized cell carries the exact value num / sqrt(den) as            *)
(* [na, num, den].                                                         *)
(***************************************************************************)
EXTENDS Integers, Sequences, FiniteSets, TLC

\* ------------------------------------------------------------------ bounds
NumRows == 4
MaxVal == 2

\* ------------------------------------------------------------ cell values
NaN == [na |-> TRUE, num |-> 0]
Num(v) == [na |-> FALSE, num |-> v]

\* Python's None where a column name is expected.
None == "None"

NoFeatures == [is_none |-> TRUE, cols |-> <<>>]
Features(cols) == [is_none |-> FALSE, cols |-> cols]

\* feature_columns or []
OrEmpty(fc) == IF fc.is_none THEN <<>> ELSE fc.cols

\* ---------------------------------------------------------- table helpers
Range(s) == {s[i] : i \in DOMAIN s}

RECURSIVE SortedSeq(_)
SortedSeq(S) ==
    IF S = {} THEN <<>>
    ELSE LET m == CHOOSE x \in S : \A y \in S : x <= y
         IN <<m>> \o SortedSeq(S \ {m})

\* The order-preserving subsequence of s at the positions of the set P.
AtPositions(s, P) == LET ps == SortedSeq(P) IN [k \in DOMAIN ps |-> s[ps[k]]]

\* [col for col in original if col in keep]
RECURSIVE FilterSeq(_, _)
FilterSeq(s, keep) ==
    IF s = <<>> THEN <<>>
    ELSE (IF Head(s) \in keep THEN <<Head(s)>> ELSE <<>>) \o FilterSeq(Tail(s), keep)

\* data[cols]: the columns cols, in that order.
SelectColumns(t, cols) ==
    [columns |-> cols,
     index   |-> t.index,
     dtype   |-> [c \in Range(cols) |-> t.dtype[c]],
     cells   |-> [c \in Range(cols) |-> t.cells[c]]]

\* data.loc[mask]: the rows at the positions of P, in index order.
SelectRows(t, P) ==
    [columns |-> t.columns,
     index   |-> AtPositions(t.index, P),
     dtype   |-> t.dtype,
     cells   |-> [c \in Range(t.columns) |-> AtPositions(t.cells[c], P)]]

RowCount(t) == Len(t.index)

\* Series.count(): the number of non-NaN values.
Count(col) == Cardinality({i \in DOMAIN col : ~col[i].na})

\* Series.std(skipna=True, ddof=0) == 0 for a column std() can reduce:
\* NaN (no value) compares unequal to 0; one value, or equal values, give 0.
StdIsZero(col) ==
    /\ \E i \in DOMAIN col : ~col[i].na
    /\ \A i, j \in DOMAIN col : (~col[i].na /\ ~col[j].na) => col[i].num = col[j].num

\* pd.api.types.is_numeric_dtype
IsNumericDtype(d) == d = "float"

\* ------------------------------------------------------------------ errors
Raise(type, msg) == [raised |-> TRUE, type |-> type, msg |-> msg]

MsgNotFound == "Specified outcome_column not found in data"
MsgConstant == "Input response cannot be constant."
MsgObservations == "Input data must have at least 3 observations."
MsgMissing == "Input data cannot have any missing values."
MsgNumeric == "Input data must contain only numeric values."
MsgStdString == "could not convert string to float"

MinObservations == 3

\* ------------------------------------------- _validate_data_and_columns
\* The std() reduction of the target: pandas raises TypeError on a column of
\* strings, and computes a value for float and for numeric object columns.
TargetStdRaises(data, target) == data.dtype[target] = "str"

\* std(ddof=1) in place of ddof=0: a single observation has no deviation.
TargetIsConstantSampleStd(data, target) ==
    StdIsZero(data.cells[target]) /\ Count(data.cells[target]) >= 2

TargetIsConstant(data, target) == StdIsZero(data.cells[target])

RECURSIVE Reverse(_)
Reverse(s) == IF s = <<>> THEN <<>> ELSE Reverse(Tail(s)) \o <<Head(s)>>

\* The features in another order than the table's, as iterating the set gives.
FeatureColumnsReordered(data, target) ==
    IF Len(data.columns) <= 1 THEN NoFeatures
    ELSE Features(Reverse(FilterSeq(data.columns, Range(data.columns) \ {target})))

FeatureColumns(data, target) ==
    IF Len(data.columns) <= 1 THEN NoFeatures
    ELSE Features(FilterSeq(data.columns, Range(data.columns) \ {target}))

TooFewObservations(data, target) == Count(data.cells[target]) < MinObservations

FeaturesHaveNaN(data, feature_columns) ==
    \E c \in Range(OrEmpty(feature_columns)) :
        \E i \in DOMAIN data.cells[c] : data.cells[c][i].na

AllNumeric(data) == \A c \in Range(data.columns) : IsNumericDtype(data.dtype[c])

ValidateDataAndColumns(data, target_column_name) ==
    LET target == IF target_column_name = None THEN data.columns[1]
                  ELSE target_column_name
    IN  IF target \notin Range(data.columns) THEN Raise("KeyError", MsgNotFound)
        ELSE IF TargetStdRaises(data, target) THEN Raise("TypeError", MsgStdString)
        ELSE IF TargetIsConstant(data, target) THEN Raise("ValueError", MsgConstant)
        ELSE
        LET feature_columns == FeatureColumns(data, target)
            selected == SelectColumns(data, <<target>> \o OrEmpty(feature_columns))
        IN  IF TooFewObservations(selected, target)
            THEN Raise("ValueError", MsgObservations)
            ELSE IF FeaturesHaveNaN(selected, feature_columns)
            THEN Raise("ValueError", MsgMissing)
            ELSE IF ~AllNumeric(selected)
            THEN Raise("ValueError", MsgNumeric)
            ELSE [raised |-> FALSE,
                  data |-> selected,
                  target_col |-> target,
                  feature_columns |-> feature_columns]

\* --------------------------- indices.parse_and_validate_date_data
MsgBound == "period bound is not in the index of the data"
MsgOrder == "period start is after period end"
MsgOverlap == "pre-period and post-period overlap"

ParseAndValidateDateData(data, pre_intervention_period, post_intervention_period) ==
    LET pre == pre_intervention_period
        post == post_intervention_period
    IN  IF ~({pre[1], pre[2], post[1], post[2]} \subseteq Range(data.index))
        THEN Raise("ValidationError", MsgBound)
        ELSE IF pre[1] > pre[2] \/ post[1] > post[2]
        THEN Raise("ValidationError", MsgOrder)
        ELSE IF pre[2] >= post[1]
        THEN Raise("ValidationError", MsgOverlap)
        ELSE [raised |-> FALSE,
              pre_intervention_period |-> pre,
              post_intervention_period |-> post]

\* ------------------------------------------------------ standardize.Scaler
MsgZeroVariance == "cannot standardize a column of zero variance"

RECURSIVE SumSeq(_)
SumSeq(s) == IF s = <<>> THEN 0 ELSE Head(s) + SumSeq(Tail(s))

\* Count, sum and sum of squares of the non-NaN values of a column: the mean is
\* sum / n and the population variance (n * sumsq - sum^2) / n^2.
ColumnStats(col) ==
    LET obs == SelectSeq(col, LAMBDA c : ~c.na)
    IN  [n     |-> Len(obs),
         sum   |-> SumSeq([i \in DOMAIN obs |-> obs[i].num]),
         sumsq |-> SumSeq([i \in DOMAIN obs |-> obs[i].num * obs[i].num])]

VarianceNumerator(st) == st.n * st.sumsq - st.sum * st.sum

ScalerFit(table) ==
    LET stats == [c \in Range(table.columns) |-> ColumnStats(table.cells[c])]
    IN  IF \E c \in Range(table.columns) :
              stats[c].n > 0 /\ VarianceNumerator(stats[c]) = 0
        THEN Raise("ValueError", MsgZeroVariance)
        ELSE [raised |-> FALSE, stats |-> stats]

\* (x - mean) / std = (n * x - sum) / sqrt(n * sumsq - sum^2), kept exactly as
\* numerator and squared denominator.
StandardizeCell(cell, st) ==
    IF cell.na \/ st.n = 0 THEN [na |-> TRUE, num |-> 0, den |-> 1]
    ELSE [na |-> FALSE, num |-> st.n * cell.num - st.sum, den |-> VarianceNumerator(st)]

ScalerTransform(scaler, table) ==
    [table EXCEPT !.cells =
        [c \in Range(table.columns) |->
            [i \in DOMAIN table.cells[c] |->
                StandardizeCell(table.cells[c][i], scaler.stats[c])]]]

\* ------------------------------------------------ CausalImpactData.__init__
\* The object under construction is the record `self` of the attributes set so
\* far; the local variable scaler is kept with it.
PreInterventionRows(data, period) ==
    {i \in 1..RowCount(data) : data.index[i] >= period[1] /\ data.index[i] <= period[2]}

\* index >= pre_end in place of index > pre_end.
AfterPreInterventionRowsInclusive(data, period) ==
    {i \in 1..RowCount(data) : data.index[i] >= period[2]}

AfterPreInterventionRows(data, period) ==
    {i \in 1..RowCount(data) : data.index[i] > period[2]}

\* DataFrame.dropna(): the rows without any NaN.
DropNa(table) ==
    SelectRows(table, {i \in 1..RowCount(table) :
                          \A c \in Range(table.columns) : ~table.cells[c][i].na})

\* pd.concat([a, b], axis=0) of two frames with the same columns.
ConcatRows(a, b) ==
    [columns |-> a.columns,
     index   |-> a.index \o b.index,
     dtype   |-> a.dtype,
     cells   |-> [c \in Range(a.columns) |-> a.cells[c] \o b.cells[c]]]

\* frame[name] = value, a new last column holding value in every row.
WithConstantColumn(table, name, value) ==
    [columns |-> table.columns \o <<name>>,
     index   |-> table.index,
     dtype   |-> [c \in Range(table.columns) \cup {name} |->
                    IF c = name THEN "float" ELSE table.dtype[c]],
     cells   |-> [c \in Range(table.columns) \cup {name} |->
                    IF c = name THEN [i \in 1..RowCount(table) |-> value]
                    ELSE table.cells[c]]]

\* tf.convert_to_tensor(series): the values of the column in row order, the
\* index dropped; tf.math.is_nan is elementwise.
ToTensor(table, col) == table.cells[col]

IsNanTensor(tensor) == [i \in DOMAIN tensor |-> tensor[i].na]

Failed(error, self) == [raised |-> TRUE, error |-> error, self |-> self]
Continue(self) == [raised |-> FALSE, self |-> self]

\* lines 86-88
InitParsePeriods(a, self) ==
    LET r == ParseAndValidateDateData(a.data, a.pre_intervention_period,
                                      a.post_intervention_period)
    IN  IF r.raised THEN Failed(r, self)
        ELSE Continue(self @@ [pre_intervention_period |-> r.pre_intervention_period,
                               post_intervention_period |-> r.post_intervention_period])

\* The column checks applied to the rows of the pre-period only.
InitValidateColumnsPrePeriod(a, self) ==
    LET pre == SelectRows(a.data, PreInterventionRows(a.data, self.pre_intervention_period))
        r == ValidateDataAndColumns(pre, a.target_col_name)
    IN  IF r.raised THEN Failed(r, self)
        ELSE Continue(self @@ [data |-> SelectColumns(a.data, r.data.columns),
                               target_col |-> r.target_col,
                               feature_columns |-> r.feature_columns])

\* lines 89-91
InitValidateColumns(a, self) ==
    LET r == ValidateDataAndColumns(a.data, a.target_col_name)
    IN  IF r.raised THEN Failed(r, self)
        ELSE Continue(self @@ [data |-> r.data,
                               target_col |-> r.target_col,
                               feature_columns |-> r.feature_columns])

\* lines 92-100
InitSplit(a, self) ==
    LET pre == SelectRows(self.data,
                          PreInterventionRows(self.data, self.pre_intervention_period))
        after == SelectRows(self.data,
                            AfterPreInterventionRows(self.data, self.pre_intervention_period))
    IN  Continue(self @@ [standardize_data |-> a.standardize_data,
                          pre_intervention_data |-> pre,
                          after_pre_intervention_data |-> after,
                          num_steps_forecast |-> Len(after.index)])

\* The scaler fitted on the whole table in place of the pre-period slice.
ScalerFitInputWholeTable(self) == self.data

\* The arguments of the two Scaler.fit calls, lines 103-105.
ScalerFitInput(self) == self.pre_intervention_data

OutcomeScalerFitInput(self) ==
    SelectColumns(self.pre_intervention_data, <<self.target_col>>)

\* dropna() whatever the flag.
DropPostPeriodNanAlways(drop_post_period_nan, table) == DropNa(table)

\* lines 112-113
DropPostPeriodNan(drop_post_period_nan, table) ==
    IF drop_post_period_nan THEN DropNa(table) ELSE table

\* lines 102-113
InitStandardize(a, self) ==
    IF self.standardize_data
    THEN LET scaler == ScalerFit(ScalerFitInput(self))
             outcome_scaler == ScalerFit(OutcomeScalerFitInput(self))
         IN  IF scaler.raised THEN Failed(scaler, self)
             ELSE IF outcome_scaler.raised THEN Failed(outcome_scaler, self)
             ELSE Continue(self @@
                    [scaler |-> scaler,
                     outcome_scaler |-> outcome_scaler,
                     normalized_pre_intervention_data |->
                        ScalerTransform(scaler, self.pre_intervention_data),
                     normalized_after_pre_intervention_data |->
                        DropPostPeriodNan(a.drop_post_period_nan,
                            ScalerTransform(scaler, self.after_pre_intervention_data))])
    ELSE Continue(self @@
            [outcome_scaler |-> None,
             normalized_pre_intervention_data |-> self.pre_intervention_data,
             normalized_after_pre_intervention_data |->
                DropPostPeriodNan(a.drop_post_period_nan,
                                  self.after_pre_intervention_data)])

\* The series built from the rows without NaN.
MaskedTimeSeriesDropNa(self) ==
    LET tensor == ToTensor(DropNa(self.normalized_pre_intervention_data), self.target_col)
    IN  [time_series |-> tensor, is_missing |-> IsNanTensor(tensor)]

\* lines 115-119
MaskedTimeSeries(self) ==
    LET tensor == ToTensor(self.normalized_pre_intervention_data, self.target_col)
    IN  [time_series |-> tensor, is_missing |-> IsNanTensor(tensor)]

\* lines 120-129
WholePeriodFeatures(self) ==
    IF ~self.feature_columns.is_none
    THEN [is_none |-> FALSE,
          frame |-> WithConstantColumn(
                      ConcatRows(
                        SelectColumns(self.normalized_pre_intervention_data,
                                      self.feature_columns.cols),
                        SelectColumns(self.normalized_after_pre_intervention_data,
                                      self.feature_columns.cols)),
                      "intercept_", Num(1))]
    ELSE [is_none |-> TRUE]

\* lines 115-129
InitModelInputs(a, self) ==
    Continue(self @@ [pre_intervention_target_ts |-> MaskedTimeSeries(self),
                      normalized_whole_period_features |-> WholePeriodFeatures(self)])

\* __init__ from its first line to its return or its first exception.
Construct(a) ==
    LET r1 == InitParsePeriods(a, <<>>)
    IN  IF r1.raised THEN r1 ELSE
        LET r2 == InitValidateColumns(a, r1.self)
        IN  IF r2.raised THEN r2 ELSE
            LET r3 == InitSplit(a, r2.self)
                r4 == InitStandardize(a, r3.self)
            IN  IF r4.raised THEN r4 ELSE InitModelInputs(a, r4.self)

\* ------------------------------------------------------------ input tables
\* Index labels are distinct from row positions: row i carries label 2*i.
TimeOf(i) == 2 * i

Times == {TimeOf(i) : i \in 1..NumRows}

CellValues == {NaN} \cup {Num(v) : v \in 1..MaxVal}

TargetSeqs == [1..NumRows -> CellValues]

Cycling(k) == [i \in 1..NumRows |-> Num(1 + ((i + k) % MaxVal))]

FeatureSeqs ==
    {Cycling(0), Cycling(1)} \cup {[Cycling(0) EXCEPT ![p] = NaN] : p \in {1, NumRows}}

Dtypes == {"float", "object", "str"}

\* A table with the columns of layout, among y, x1 and x2 (a clean float column).
Table(layout, y, x1, dy, dx1) ==
    [columns |-> layout,
     index   |-> [i \in 1..NumRows |-> TimeOf(i)],
     dtype   |-> [c \in Range(layout) |->
                    IF c = "y" THEN dy ELSE IF c = "x1" THEN dx1 ELSE "float"],
     cells   |-> [c \in Range(layout) |->
                    IF c = "y" THEN y ELSE IF c = "x1" THEN x1 ELSE Cycling(1)]]

Table1(y, dy) == Table(<<"y">>, y, Cycling(0), dy, "float")

Table2(y, x1) == Table(<<"y", "x1">>, y, x1, "float", "float")

Table3(y) == Table(<<"x1", "y", "x2">>, y, Cycling(0), "float", "float")

Layouts == {<<"y">>, <<"y", "x1">>, <<"x1", "y">>, <<"x1", "y", "x2">>}

TargetNames == {None, "y", "x1", "zz"}

WithNaNAt(s, p) == IF p = 0 THEN s ELSE [s EXCEPT ![p] = NaN]

\* Constructor targets: a varying series with any last value and at most one
\* further missing value, a constant series with at most one missing value,
\* and a series with a single observation.
ConstructorTargetSeqs ==
    {WithNaNAt([Cycling(k) EXCEPT ![NumRows] = v], p) :
        k \in 0..1, v \in CellValues, p \in 0..(NumRows - 1)}
    \cup {WithNaNAt([i \in 1..NumRows |-> Num(v)], p) : v \in 1..MaxVal, p \in 0..NumRows}
    \cup {[i \in 1..NumRows |-> IF i = p THEN Num(1) ELSE NaN] : p \in 1..NumRows}

\* Constructor inputs: the target alone, with one feature (clean or with a
\* missing value) and between two features; a numeric object column.
ConstructorTables ==
    {Table1(y, dy) : y \in ConstructorTargetSeqs, dy \in {"float", "object"}}
    \cup {Table2(y, x1) :
            y \in ConstructorTargetSeqs,
            x1 \in {Cycling(0), [Cycling(0) EXCEPT ![NumRows] = NaN]}}
    \cup {Table3(y) : y \in ConstructorTargetSeqs}

ConstructorTargetNames == {None, "x1", "zz"}

PeriodPairs == {p \in Times \X Times : p[1] <= p[2]}

ValidPeriodArgs == {pp \in PeriodPairs \X PeriodPairs : pp[1][2] < pp[2][1]}

InvalidPeriodArgs ==
    {<<<<TimeOf(2), TimeOf(1)>>, <<TimeOf(3), TimeOf(NumRows)>>>>,
     <<<<TimeOf(1), TimeOf(2)>>, <<TimeOf(2), TimeOf(NumRows)>>>>,
     <<<<TimeOf(1) - 1, TimeOf(2)>>, <<TimeOf(3), TimeOf(NumRows)>>>>}

PeriodArgs == ValidPeriodArgs \cup InvalidPeriodArgs

\* ------------------------------------------------------------------- state
\* =========================================================================
\* causalimpact/plot.py: _create_plot_component_df
\*
\* A frame here is [columns |-> sequence of column names,
\*                  rows    |-> sequence of [column name -> cell]].
\* Column names are strings; a time or period cell is an integer, a cell of
\* scale, stat or band_method is a string, and a numeric cell is the exact
\* rational [na |-> FALSE, num |-> n, den |-> d] in lowest terms, or Null.
\* =========================================================================
NumTimes == 3

\* ------------------------------------------------------------------- text
\* stub in col
Contains(col, stub) ==
    \E i \in 1..(Len(col) - Len(stub) + 1) : SubSeq(col, i, i + Len(stub) - 1) = stub

\* The alternatives of a regular expression a|b|c that match s at position i.
MatchAt(s, i, alternatives) ==
    {k \in DOMAIN alternatives :
        /\ i + Len(alternatives[k]) - 1 <= Len(s)
        /\ SubSeq(s, i, i + Len(alternatives[k]) - 1) = alternatives[k]}

\* Series.str.contains(pattern, regex=True)
StrContains(s, alternatives) == \E i \in 1..Len(s) : MatchAt(s, i, alternatives) # {}

\* Series.str.replace(pattern, "", regex=True): scanning from the left, every
\* match is removed; at a position the first alternative that matches wins.
RECURSIVE StrRemoveFrom(_, _, _)
StrRemoveFrom(s, i, alternatives) ==
    IF i > Len(s) THEN ""
    ELSE LET hits == MatchAt(s, i, alternatives)
         IN  IF hits = {}
             THEN SubSeq(s, i, i) \o StrRemoveFrom(s, i + 1, alternatives)
             ELSE LET k == CHOOSE h \in hits : \A g \in hits : h <= g
                  IN  StrRemoveFrom(s, i + Len(alternatives[k]), alternatives)

StrRemove(s, alternatives) == StrRemoveFrom(s, 1, alternatives)

\* Code-point order of the characters that occur in column names.
Alphabet == "_abcdefghijklmnopqrstuvwxyz"

CharRank(c) == CHOOSE i \in 1..Len(Alphabet) : SubSeq(Alphabet, i, i) = c

\* a < b for Python strings.
RECURSIVE StrLessFrom(_, _, _)
StrLessFrom(a, b, i) ==
    IF i > Len(a) THEN i <= Len(b)
    ELSE IF i > Len(b) THEN FALSE
    ELSE LET x == CharRank(SubSeq(a, i, i))
             y == CharRank(SubSeq(b, i, i))
         IN  IF x = y THEN StrLessFrom(a, b, i + 1) ELSE x < y

StrLess(a, b) == StrLessFrom(a, b, 1)

RECURSIVE SortedStrings(_)
SortedStrings(S) ==
    IF S = {} THEN <<>>
    ELSE LET m == CHOOSE x \in S : \A y \in S \ {x} : StrLess(x, y)
         IN  <<m>> \o SortedStrings(S \ {m})

\* ---------------------------------------------------------- numeric cells
Null == [na |-> TRUE, num |-> 0, den |-> 1]

RECURSIVE GCD(_, _)
GCD(a, b) == IF b = 0 THEN a ELSE GCD(b, a % b)

Abs(n) == IF n < 0 THEN -n ELSE n

\* The float n / d, d > 0.
Float(n, d) ==
    LET g == GCD(Abs(n), d)
    IN  [na |-> FALSE, num |-> n \div g, den |-> d \div g]

\* Float arithmetic; NaN propagates.
Add(a, b) ==
    IF a.na \/ b.na THEN Null ELSE Float(a.num * b.den + b.num * a.den, a.den * b.den)

Sub(a, b) ==
    IF a.na \/ b.na THEN Null ELSE Float(a.num * b.den - b.num * a.den, a.den * b.den)

Mul(a, b) == IF a.na \/ b.na THEN Null ELSE Float(a.num * b.num, a.den * b.den)

LessEq(a, b) == a.num * b.den <= b.num * a.den

\* mean of the non-null cells of a sequence (skipna); Null if there is none.
RECURSIVE SumCells(_)
SumCells(s) ==
    IF s = <<>> THEN Float(0, 1)
    ELSE IF Head(s).na THEN SumCells(Tail(s))
    ELSE Add(Head(s), SumCells(Tail(s)))

MeanCells(s) ==
    LET n == Cardinality({i \in DOMAIN s : ~s[i].na})
        total == SumCells(s)
    IN  IF n = 0 THEN Null ELSE Float(total.num, total.den * n)

\* ----------------------------------------------------------------- frames
HasColumn(frame, c) == c \in Range(frame.columns)

\* frame[cols]
SelectFrameColumns(frame, cols) ==
    [columns |-> cols,
     rows    |-> [i \in DOMAIN frame.rows |-> [c \in Range(cols) |-> frame.rows[i][c]]]]

\* frame[name] = values, one value per row: an existing column is overwritten
\* in place, a new one is appended.
AssignColumn(frame, name, values) ==
    [columns |-> IF HasColumn(frame, name) THEN frame.columns
                 ELSE Append(frame.columns, name),
     rows    |-> [i \in DOMAIN frame.rows |->
                    [c \in Range(frame.columns) \cup {name} |->
                        IF c = name THEN values[i] ELSE frame.rows[i][c]]]]

\* frame.drop(columns=cols)
DropColumns(frame, cols) ==
    SelectFrameColumns(frame, SelectSeq(frame.columns, LAMBDA c : c \notin cols))

RECURSIVE Flatten(_)
Flatten(ss) == IF ss = <<>> THEN <<>> ELSE Head(ss) \o Flatten(Tail(ss))

\* ------------------------------------------------ _create_plot_component_df
valid_components == {"lines", "bands", "std"}

\* repr() of a set of strings, its members in the iteration order hash_order.
SetRepr(hash_order) ==
    "{'" \o hash_order[1] \o "', '" \o hash_order[2] \o "', '" \o hash_order[3] \o "'}"

\* The f-string of line 549; the source writes the first word between grave
\* accents, left out here.
MsgComponent(component, hash_order) ==
    "component must be one of " \o SetRepr(hash_order)
        \o ". Got '" \o component \o "'."

MsgMeltKeys == "The following id_vars or value_vars are not present in the DataFrame"

ComponentAlwaysValid(component) == TRUE

\* line 548: component in valid_components
ComponentIsValid(component) == component \in valid_components

base_columns ==
    <<"time", "pre_period_start", "pre_period_end",
      "post_period_start", "post_period_end">>

required_columns(component) ==
    IF component = "lines" THEN base_columns \o <<"mean", "median", "observed">>
    ELSE IF component = "bands" THEN base_columns \o <<"lower", "upper">>
    ELSE base_columns \o <<"mean", "std">>

extracted_columns(series, component) ==
    LET required == required_columns(component)
    IN  SelectSeq(series.columns,
                  LAMBDA col : \E k \in DOMAIN required : Contains(col, required[k]))

\* filtered_df.melt(id_vars=base_columns, var_name="scale_stat",
\* value_name="value"): one block of rows per value column, in column order.
Melt(frame) ==
    LET value_vars == SelectSeq(frame.columns, LAMBDA c : c \notin Range(base_columns))
        Block(c) ==
            [i \in DOMAIN frame.rows |->
                [k \in Range(base_columns) \cup {"scale_stat", "value"} |->
                    IF k = "scale_stat" THEN c
                    ELSE IF k = "value" THEN frame.rows[i][c]
                    ELSE frame.rows[i][k]]]
    IN  [columns |-> base_columns \o <<"scale_stat", "value">>,
         rows    |-> Flatten([j \in DOMAIN value_vars |-> Block(value_vars[j])])]

StatisticalSuffixesWithoutMean == <<"_upper", "_lower", "_median", "_std">>

statistical_suffixes == <<"_upper", "_lower", "_mean", "_median", "_std">>

original_scale_keywords == <<"observed", "posterior">>

scale_prefixes == <<"posterior_", "point_effects_", "cumulative_effects_">>

\* lines 577-582
ScaleOf(scale_stat) ==
    LET scale == StrRemove(scale_stat, statistical_suffixes)
    IN  IF StrContains(scale, original_scale_keywords) THEN "original" ELSE scale

\* lines 585-586
StatOf(scale_stat) == StrRemove(scale_stat, scale_prefixes)

pivot_columns ==
    <<"time", "scale", "pre_period_start", "pre_period_end",
      "post_period_start", "post_period_end">>

\* The order of two index keys of the pivot: by time, then scale, then the
\* period bounds.
RECURSIVE KeyLessFrom(_, _, _)
KeyLessFrom(a, b, k) ==
    IF k > Len(pivot_columns) THEN FALSE
    ELSE IF a[k] = b[k] THEN KeyLessFrom(a, b, k + 1)
    ELSE IF pivot_columns[k] = "scale" THEN StrLess(a[k], b[k])
    ELSE a[k] < b[k]

RECURSIVE SortedKeys(_)
SortedKeys(S) ==
    IF S = {} THEN <<>>
    ELSE LET m == CHOOSE x \in S : \A y \in S \ {x} : KeyLessFrom(x, y, 1)
         IN  <<m>> \o SortedKeys(S \ {m})

\* melted_df.pivot_table(index=pivot_columns, columns="stat",
\* values="value").reset_index(): the mean of the non-null values of every
\* (index key, stat) group; groups without a value are dropped, and so are the
\* keys and the stats left without a group.  Rows are sorted by key, the stat
\* columns by name.
PivotTable(frame) ==
    LET KeyOf(row) == [k \in DOMAIN pivot_columns |-> row[pivot_columns[k]]]
        Valued == SelectSeq(frame.rows, LAMBDA row : ~row["value"].na)
        keys == SortedKeys({KeyOf(Valued[i]) : i \in DOMAIN Valued})
        stats == SortedStrings({Valued[i]["stat"] : i \in DOMAIN Valued})
        Group(key, stat) ==
            SelectSeq(Valued, LAMBDA row : KeyOf(row) = key /\ row["stat"] = stat)
        Values(group) == [i \in DOMAIN group |-> group[i]["value"]]
    IN  [columns |-> pivot_columns \o stats,
         rows    |-> [j \in DOMAIN keys |->
                        [c \in Range(pivot_columns) \cup Range(stats) |->
                            IF c \in Range(pivot_columns)
                            THEN keys[j][CHOOSE k \in DOMAIN pivot_columns :
                                            pivot_columns[k] = c]
                            ELSE MeanCells(Values(Group(keys[j], c)))]]]

\* tfp.distributions.Normal(0, 1).quantile(1 - alpha / 2), to three decimals;
\* alpha is given in percent.
z_score(alpha) ==
    IF alpha = 5 THEN Float(1960, 1000)
    ELSE IF alpha = 10 THEN Float(1645, 1000)
    ELSE Float(2576, 1000)

\* One step of the function on its locals: the locals set so far, or a raise.
\* lines 547-549
CheckComponent(call, locals) ==
    IF ~ComponentIsValid(call.component)
    THEN Failed(Raise("ValueError", MsgComponent(call.component, call.hash_order)), locals)
    ELSE Continue(locals)

\* lines 552-567
ExtractColumns(call, locals) ==
    LET extracted == extracted_columns(call.series, call.component)
    IN  Continue([extracted_columns |-> extracted,
                  filtered_df |-> SelectFrameColumns(call.series, extracted)])

\* lines 570-574
MeltFiltered(call, locals) ==
    IF \E k \in DOMAIN base_columns : ~HasColumn(locals.filtered_df, base_columns[k])
    THEN Failed(Raise("KeyError", MsgMeltKeys), locals)
    ELSE Continue(locals @@ [melted_df |-> Melt(locals.filtered_df)])

\* lines 577-589
DeriveScaleAndStat(call, locals) ==
    LET scale_stat == [i \in DOMAIN locals.melted_df.rows |->
                          locals.melted_df.rows[i]["scale_stat"]]
        with_scale == AssignColumn(locals.melted_df, "scale",
                          [i \in DOMAIN scale_stat |-> ScaleOf(scale_stat[i])])
        with_stat == AssignColumn(with_scale, "stat",
                          [i \in DOMAIN scale_stat |-> StatOf(scale_stat[i])])
    IN  Continue([locals EXCEPT !.melted_df = DropColumns(with_stat, {"scale_stat"})])

StdBandsOneSigma(pivoted_df, alpha) ==
    LET mean == [i \in DOMAIN pivoted_df.rows |-> pivoted_df.rows[i]["mean"]]
        std == [i \in DOMAIN pivoted_df.rows |-> pivoted_df.rows[i]["std"]]
        with_lower == AssignColumn(pivoted_df, "lower",
                          [i \in DOMAIN mean |-> Sub(mean[i], std[i])])
        with_upper == AssignColumn(with_lower, "upper",
                          [i \in DOMAIN mean |-> Add(mean[i], std[i])])
    IN  DropColumns(with_upper, {"mean", "std"})

\* lines 606-611
StdBands(pivoted_df, alpha) ==
    LET mean == [i \in DOMAIN pivoted_df.rows |-> pivoted_df.rows[i]["mean"]]
        std == [i \in DOMAIN pivoted_df.rows |-> pivoted_df.rows[i]["std"]]
        with_lower == AssignColumn(pivoted_df, "lower",
                          [i \in DOMAIN mean |-> Sub(mean[i], Mul(z_score(alpha), std[i]))])
        with_upper == AssignColumn(with_lower, "upper",
                          [i \in DOMAIN mean |-> Add(mean[i], Mul(z_score(alpha), std[i]))])
    IN  DropColumns(with_upper, {"mean", "std"})

\* lines 592-617
Reshape(call, locals) ==
    IF call.component \in {"bands", "std"}
    THEN LET pivoted_df == PivotTable(locals.melted_df)
             band_method == IF call.component = "bands" THEN "quantiles" ELSE "std"
             banded == AssignColumn(pivoted_df, "band_method",
                                    [i \in DOMAIN pivoted_df.rows |-> band_method])
         IN  IF call.component = "std"
             THEN IF ~HasColumn(banded, "mean") THEN Failed(Raise("KeyError", "mean"), locals)
                  ELSE IF ~HasColumn(banded, "std") THEN Failed(Raise("KeyError", "std"), locals)
                  ELSE Continue([locals EXCEPT !.filtered_df = StdBands(banded, call.alpha)])
             ELSE Continue([locals EXCEPT !.filtered_df = banded])
    ELSE Continue([locals EXCEPT !.filtered_df = locals.melted_df])

\* ------------------------------------------------- evaluation tables (input)
PlotTimes == 1..NumTimes

\* The period bounds every row of the evaluation table carries.
PeriodBound(c) ==
    IF c = "pre_period_start" THEN 1
    ELSE IF c = "pre_period_end" THEN 1
    ELSE IF c = "post_period_start" THEN 2
    ELSE NumTimes - 1

StatFamilies ==
    {<<"mean">>, <<"mean", "lower", "upper">>, <<"mean", "median", "lower", "upper">>,
     <<"mean", "std">>, <<"mean", "lower", "upper", "std">>, <<"lower", "upper">>,
     <<"std">>}

ScaleFamilies ==
    {<<"posterior">>, <<"posterior", "point_effects">>,
     <<"posterior", "point_effects", "cumulative_effects">>}

\* The evaluation table with the column observed (if asked), the columns
\* <scale>_<stat>, and the base columns but the one named by missing.  With
\* nulls, the estimates have no value after the post-period.
EvaluationTable(scales, stats, observed, missing, nulls, seed) ==
    LET estimates ==
            Flatten([i \in DOMAIN scales |->
                        [j \in DOMAIN stats |-> scales[i] \o "_" \o stats[j]]])
        columns ==
            (IF observed THEN <<"observed">> ELSE <<>>)
                \o estimates
                \o SelectSeq(Tail(base_columns) \o <<"time">>, LAMBDA c : c # missing)
        Position(c) == CHOOSE k \in DOMAIN columns : columns[k] = c
    IN  [columns |-> columns,
         rows    |-> [t \in PlotTimes |->
                        [c \in Range(columns) |->
                            IF c = "time" THEN t
                            ELSE IF c \in Range(base_columns) THEN PeriodBound(c)
                            ELSE IF nulls /\ c # "observed" /\ t > PeriodBound("post_period_end")
                                 THEN Null
                            ELSE Float((Position(c) + t + seed) % (MaxVal + 1), 1)]]]

Components == {"lines", "bands", "std", "invalid", "Lines"}

\* alpha, in percent
Alphas == {5, 10}

\* The iteration orders of the set valid_components.
HashOrders ==
    {o \in [1..3 -> valid_components] : \A i, j \in 1..3 : o[i] = o[j] => i = j}

\* The whole function on one table: the frame it returns, or what it raises.
CreatePlotComponentDf(series, component, alpha) ==
    LET call == [series |-> series, component |-> component, alpha |-> alpha,
                 hash_order |-> <<"lines", "bands", "std">>]
        checked == CheckComponent(call, <<>>)
        extracted == ExtractColumns(call, checked.self)
        melted == MeltFiltered(call, extracted.self)
        derived == DeriveScaleAndStat(call, melted.self)
        reshaped == Reshape(call, derived.self)
    IN  IF checked.raised THEN checked
        ELSE IF melted.raised THEN melted
        ELSE IF reshaped.raised THEN reshaped
        ELSE [raised |-> FALSE, frame |-> reshaped.self.filtered_df]

\* =========================================================================
\* causalimpact/plot.py: _create_plot_df and plot
\* =========================================================================
\* The null of a column of text (band_method, stat_pretty, scale_pretty).
NullText == "NaN"

\* alpha = 0.05, in percent
DefaultAlpha == 5

ConcatFramesFirstOnly(a, b) == a

\* pd.concat([a, b], axis=0, sort=True): the rows of a, then the rows of b;
\* columns that differ are united and sorted, and a cell of a column a frame
\* does not have is null.
ConcatFrames(a, b) ==
    LET columns == IF a.columns = b.columns THEN a.columns
                   ELSE SortedStrings(Range(a.columns) \cup Range(b.columns))
        Widen(frame) ==
            [i \in DOMAIN frame.rows |->
                [c \in Range(columns) |->
                    IF HasColumn(frame, c) THEN frame.rows[i][c]
                    ELSE IF c = "band_method" THEN NullText
                    ELSE Null]]
    IN  [columns |-> columns, rows |-> Widen(a) \o Widen(b)]

MergeOnTimeOnly == <<"time">>

\* lines 480-483
merge_on ==
    <<"time", "scale", "pre_period_start", "pre_period_end",
      "post_period_start", "post_period_end">>

\* left.merge(right, on=on, how=how) for how = "left" or "inner": every row
\* of left, in order, once per row of right with the same key; a row of left
\* without such a row is kept once with nulls (left) or dropped (inner).
Merge(left, right, on, how) ==
    LET added == SelectSeq(right.columns, LAMBDA c : c \notin Range(on))
        SameKey(l, r) == \A k \in DOMAIN on : l[on[k]] = r[on[k]]
        Joined(l, r) ==
            [c \in Range(left.columns) \cup Range(added) |->
                IF c \in Range(left.columns) THEN l[c] ELSE r[c]]
        Unmatched(l) ==
            [c \in Range(left.columns) \cup Range(added) |->
                IF c \in Range(left.columns) THEN l[c]
                ELSE IF c = "band_method" THEN NullText
                ELSE Null]
        Matches(l) == SelectSeq(right.rows, LAMBDA r : SameKey(l, r))
        RowsOf(l) ==
            IF Matches(l) = <<>>
            THEN (IF how = "left" THEN <<Unmatched(l)>> ELSE <<>>)
            ELSE [j \in DOMAIN Matches(l) |-> Joined(l, Matches(l)[j])]
    IN  [columns |-> left.columns \o added,
         rows    |-> Flatten([i \in DOMAIN left.rows |-> RowsOf(left.rows[i])])]

MergeInner(left, right) == Merge(left, right, merge_on, "inner")

\* lines 478-484
MergeLeft(left, right) == Merge(left, right, merge_on, "left")

\* frame.loc[mask]: the rows whose mask is true, in order.
KeepRows(frame, mask) ==
    [frame EXCEPT !.rows = AtPositions(frame.rows, {i \in DOMAIN mask : mask[i]})]

ColumnOf(frame, c) == [i \in DOMAIN frame.rows |-> frame.rows[i][c]]

UpperAlphabet == "_ABCDEFGHIJKLMNOPQRSTUVWXYZ"

\* str.capitalize() of a lower-case name.
Capitalize(s) ==
    IF s = "" THEN ""
    ELSE LET r == CharRank(SubSeq(s, 1, 1))
         IN  SubSeq(UpperAlphabet, r, r) \o SubSeq(s, 2, Len(s))

\* frame[column] = pd.Categorical(values, categories=categories,
\* ordered=True): a value outside the categories becomes null, and the column
\* carries the order of its categories.
AssignCategorical(frame, column, values, categories) ==
    LET assigned == AssignColumn(frame, column,
                        [i \in DOMAIN values |->
                            IF values[i] \in Range(categories) THEN values[i]
                            ELSE NullText])
        before == IF "categories" \in DOMAIN frame THEN frame.categories ELSE <<>>
    IN  [columns |-> assigned.columns,
         rows |-> assigned.rows,
         categories |-> (column :> categories) @@ before]

\* ----------------------------------------------------------------- plot()
DefaultPlotParams ==
    [static_plot |-> TRUE, backend |-> "matplotlib", alpha |-> DefaultAlpha,
     show_median |-> FALSE, use_std_intervals |-> FALSE]

MsgBackend(backend) ==
    "backend must be one of 'altair' or 'matplotlib'. Got " \o backend \o "."

\* lines 369-405: plot_params[k] = kwargs.get(k, v)
PlotParams(kwargs) ==
    [k \in DOMAIN DefaultPlotParams |->
        IF k \in DOMAIN kwargs THEN kwargs[k] ELSE DefaultPlotParams[k]]

\* Each step works on the locals of plot(), on the locals of its call of
\* _create_plot_df (locals.df) and on the table ci_model.series.
StepResult(locals, series) == [raised |-> FALSE, self |-> locals, series |-> series]

StepRaises(error, locals, series) ==
    [raised |-> TRUE, error |-> error, self |-> locals, series |-> series]

PlotProcessKwargs(call, locals, series) ==
    StepResult([plot_params |-> PlotParams(call.kwargs)], series)

\* line 465: series["time"] = series.index
DfSetTime(call, locals, series) ==
    LET timed == AssignColumn(series.frame, "time", series.index)
    IN  StepResult(locals, [series EXCEPT !.frame = timed])

\* line 469
DfLines(call, locals, series) ==
    LET lines == CreatePlotComponentDf(series.frame, "lines", DefaultAlpha)
    IN  IF lines.raised THEN StepRaises(lines.error, locals, series)
        ELSE StepResult(locals @@ [df |-> [lines_df |-> lines.frame]], series)

\* line 470
DfBands(call, locals, series) ==
    LET bands == CreatePlotComponentDf(series.frame, "bands", DefaultAlpha)
    IN  IF bands.raised THEN StepRaises(bands.error, locals, series)
        ELSE StepResult([locals EXCEPT !.df = @ @@ [bands_df |-> bands.frame]], series)

SeriesHasStd(series) ==
    \E k \in DOMAIN series.frame.columns : Contains(series.frame.columns[k], "std")

\* lines 471-473
DfStd(call, locals, series) ==
    IF SeriesHasStd(series)
    THEN LET std == CreatePlotComponentDf(series.frame, "std", locals.plot_params.alpha)
         IN  IF std.raised THEN StepRaises(std.error, locals, series)
             ELSE StepResult(
                    [locals EXCEPT !.df =
                        [std_df |-> std.frame,
                         bands_df |-> ConcatFrames(@.bands_df, std.frame),
                         lines_df |-> @.lines_df]],
                    series)
    ELSE StepResult(locals, series)

\* lines 478-484
DfMerge(call, locals, series) ==
    StepResult([locals EXCEPT !.df = @ @@
                   [plot_df |-> MergeLeft(locals.df.lines_df, locals.df.bands_df)]],
               series)

ZeroEverywhere(scale) == Float(0, 1)

\* plot_df["zero"] = 0, then NaN where scale == "original"
ZeroOf(scale) == IF scale = "original" THEN Null ELSE Float(0, 1)

\* lines 489-490
DfZero(call, locals, series) ==
    LET scale == ColumnOf(locals.df.plot_df, "scale")
    IN  StepResult([locals EXCEPT !.df.plot_df =
                       AssignColumn(@, "zero", [i \in DOMAIN scale |-> ZeroOf(scale[i])])],
                   series)

ScalePrettyCapitalized(m) == Capitalize(m)

ScalePretty(m) ==
    IF m = "original" THEN "Original"
    ELSE IF m = "point_effects" THEN "Pointwise"
    ELSE "Cumulative"

\* lines 493-508; the frame goes back to plot() as main_plot_df
DfPretty(call, locals, series) ==
    LET plot_df == locals.df.plot_df
        scale == ColumnOf(plot_df, "scale")
        stat == ColumnOf(plot_df, "stat")
        with_scale == AssignCategorical(plot_df, "scale_pretty",
                          [i \in DOMAIN scale |-> ScalePretty(scale[i])],
                          <<"Original", "Pointwise", "Cumulative">>)
        with_stat == AssignCategorical(with_scale, "stat_pretty",
                          [i \in DOMAIN stat |-> Capitalize(stat[i])],
                          <<"Observed", "Mean", "Median">>)
    IN  StepResult([locals EXCEPT !.df.plot_df = with_stat]
                       @@ [main_plot_df |-> with_stat],
                   series)

\* lines 414-417
PlotBandFilter(call, locals, series) ==
    LET band_method == ColumnOf(locals.main_plot_df, "band_method")
        excluded == IF locals.plot_params.use_std_intervals THEN "quantile" ELSE "std"
    IN  StepResult(locals @@
                     [plot_df |-> KeepRows(locals.main_plot_df,
                                     [i \in DOMAIN band_method |-> band_method[i] # excluded])],
                   series)

\* lines 420-424
PlotMedianFilter(call, locals, series) ==
    IF locals.plot_params.show_median
    THEN LET stat == ColumnOf(locals.plot_df, "stat")
             kept == KeepRows(locals.plot_df, [i \in DOMAIN stat |-> stat[i] # "median"])
         IN  StepResult([locals EXCEPT !.plot_df =
                            AssignCategorical(kept, "stat_pretty",
                                ColumnOf(kept, "stat_pretty"), <<"Observed", "Mean">>)],
                        series)
    ELSE StepResult(locals, series)

Rendered(renderer, plot_df) == [raised |-> FALSE, renderer |-> renderer, plot_df |-> plot_df]

PlotDispatchAnyBackend(call, locals) ==
    IF locals.plot_params.backend = "altair" /\ ~locals.plot_params.static_plot
    THEN Rendered("_draw_interactive_plot", locals.plot_df)
    ELSE Rendered("_draw_matplotlib_plot", locals.plot_df)

\* lines 427-440: the renderer called and the frame handed to it.
PlotDispatch(call, locals) ==
    LET params == locals.plot_params
        stat == ColumnOf(locals.plot_df, "stat")
    IN  IF params.backend = "altair"
        THEN IF params.static_plot
             THEN Rendered("_draw_classic_plot",
                           KeepRows(locals.plot_df,
                                    [i \in DOMAIN stat |-> stat[i] # "median"]))
             ELSE Rendered("_draw_interactive_plot", locals.plot_df)
        ELSE IF params.backend = "matplotlib"
        THEN Rendered("_draw_matplotlib_plot", locals.plot_df)
        ELSE Raise("ValueError", MsgBackend(params.backend))

\* ------------------------------------------------------ period markers
\* The frame a renderer receives is [columns, rows, index]: index holds the
\* row labels, those of the rows plot() kept out of 0 .. n-1.
period_columns ==
    <<"pre_period_start", "pre_period_end", "post_period_start", "post_period_end">>

\* frame.index.get_loc(label): the position of the row with that label.
PositionOfLabel(frame, label) ==
    CHOOSE i \in DOMAIN frame.index : frame.index[i] = label

\* A marker drawn: its key and what its x is taken from.
Marker(key, x) == [key |-> key, x |-> x]

AddPeriodMarkersAlways(df) ==
    IF df.rows = <<>>
    THEN Raise("IndexError", "single positional indexer is out-of-bounds")
    ELSE [raised |-> FALSE,
          vlines |-> {Marker(period_columns[k], df.rows[1][period_columns[k]]) :
                         k \in DOMAIN period_columns}]

\* _draw_matplotlib_plot.add_period_markers, lines 148-176: the axvline
\* calls made on an axis.
AddPeriodMarkers(df) ==
    IF \E k \in DOMAIN period_columns : ~HasColumn(df, period_columns[k])
    THEN Raise("KeyError",
               period_columns[CHOOSE k \in DOMAIN period_columns :
                                 /\ ~HasColumn(df, period_columns[k])
                                 /\ \A j \in 1..(k - 1) : HasColumn(df, period_columns[j])])
    ELSE IF df.rows = <<>>
    THEN Raise("IndexError", "single positional indexer is out-of-bounds")
    ELSE LET pre_start == df.rows[1]["pre_period_start"]
             pre_end == df.rows[1]["pre_period_end"]
             post_start == df.rows[1]["post_period_start"]
             post_end == df.rows[1]["post_period_end"]
             time == ColumnOf(df, "time")
         IN  [raised |-> FALSE,
              vlines |->
                 (IF \E i \in DOMAIN time : time[i] < pre_start
                  THEN {Marker("pre_period_start", pre_start)} ELSE {})
                 \cup (IF \E i \in DOMAIN time : time[i] > pre_end /\ time[i] < post_start
                       THEN {Marker("pre_period_end", pre_end)} ELSE {})
                 \cup {Marker("post_period_start", post_start)}
                 \cup (IF \E i \in DOMAIN time : time[i] > post_end
                       THEN {Marker("post_period_end", post_end)} ELSE {})]

\* lines 709-716: a rule per key whose condition holds, x read from the
\* column x_value.
AddVline(key, condition, x_value) ==
    IF condition THEN {Marker(key, x_value \o ":T")} ELSE {}

\* _create_base_layers, lines 659-740: its "vlines".
CreateBaseLayers(plot_df) ==
    IF Range(period_columns) \ Range(plot_df.columns) # {}
    THEN Raise("KeyError", "The following required columns are missing in plot_df")
    ELSE IF 0 \notin Range(plot_df.index)
    THEN Raise("KeyError", "0")
    ELSE LET first == plot_df.rows[PositionOfLabel(plot_df, 0)]
             periods == [c \in Range(period_columns) |-> first[c]]
             time == ColumnOf(plot_df, "time")
         IN  [raised |-> FALSE,
              vlines |->
                 AddVline("pre_period_start",
                          \E i \in DOMAIN time : time[i] < periods["pre_period_start"],
                          "pre_period_start")
                 \cup AddVline("pre_period_end",
                          \E i \in DOMAIN time :
                             /\ time[i] > periods["pre_period_end"]
                             /\ time[i] < periods["post_period_start"],
                          "pre_period_end")
                 \cup AddVline("post_period_start", TRUE, "post_period_start")
                 \cup AddVline("post_period_end",
                          \E i \in DOMAIN time : time[i] > periods["post_period_end"],
                          "post_period_end")]

\* ------------------------------------------------ renderer frames (input)
\* The period bounds a frame may carry, before, inside and after its times.
PeriodBounds ==
    {p \in [1..4 -> 0..(NumTimes + 1)] : p[1] <= p[2] /\ p[2] < p[3] /\ p[3] <= p[4]}

\* The frame with one row per time, labelled 0 .. NumTimes - 1, of which
\* plot() kept the rows of mask.
RendererFrame(bounds, mask) ==
    LET kept == {t \in PlotTimes : mask[t]}
    IN  [columns |-> <<"time">> \o period_columns,
         rows |-> AtPositions(
                     [t \in PlotTimes |->
                        [c \in {"time"} \cup Range(period_columns) |->
                            IF c = "time" THEN t
                            ELSE bounds[CHOOSE k \in DOMAIN period_columns :
                                           period_columns[k] = c]]],
                     kept),
         index |-> AtPositions([t \in PlotTimes |-> t - 1], kept)]

\* ------------------------------------------------------- plot() (input)
PlotIndex == [t \in PlotTimes |-> t]

\* ci_model.series: the evaluation table and its index.
CiSeries(scales, stats, observed, missing, nulls) ==
    [frame |-> EvaluationTable(scales, stats, observed, missing, nulls, 0),
     index |-> PlotIndex]

Backends == {"altair", "matplotlib", "plotly"}

KwargNames == {"backend", "static_plot", "show_median", "use_std_intervals"}

\* The keyword arguments given, among KwargNames.
Kwargs(given, backend, static_plot, show_median, use_std_intervals) ==
    [k \in given |->
        IF k = "backend" THEN backend
        ELSE IF k = "static_plot" THEN static_plot
        ELSE IF k = "show_median" THEN show_median
        ELSE use_std_intervals]

AllStatistics == <<"mean", "median", "lower", "upper", "std">>

VARIABLES
    args,     \* arguments of the CausalImpactData(...) call
    pc,       \* position in __init__
    self,     \* attributes of the object set so far
    raised,   \* the exception that ended __init__, if any
    vcall,    \* arguments of a call of _validate_data_and_columns
    vpc,      \* "idle" | "call" | "returned"
    vret,     \* what the call returned or raised
    xcall,    \* arguments of a call of _create_plot_component_df
    xpc,      \* position in _create_plot_component_df
    xlocals,  \* its local variables set so far
    xret,     \* what the call returned or raised
    plot_call,    \* arguments of a call of plot(); ci_model.series as it was then
    plot_pc,      \* position in plot() and in its call of _create_plot_df
    ci_series,    \* the table ci_model.series and its index
    plot_locals,  \* local variables of plot() and of _create_plot_df
    plot_ret,     \* what plot() raised, or the renderer called and its frame
    render_call,  \* the function of a renderer called and the frame it receives
    render_pc,    \* "idle" | "call" | "returned" | "raised"
    render_ret    \* the vertical rules it made, or what it raised

vars ==
    <<args, pc, self, raised, vcall, vpc, vret, xcall, xpc, xlocals, xret,
      plot_call, plot_pc, ci_series, plot_locals, plot_ret,
      render_call, render_pc, render_ret>>

NoError == [raised |-> FALSE]

ConstructorIdle == args = <<>> /\ pc = "idle" /\ self = <<>> /\ raised = NoError

\* ------------------------------------- a call of _validate_data_and_columns
ValidateIdle == vcall = <<>> /\ vpc = "idle" /\ vret = <<>>

ExtractorIdle == xcall = <<>> /\ xpc = "idle" /\ xlocals = <<>> /\ xret = <<>>

RenderIdle == render_call = <<>> /\ render_pc = "idle" /\ render_ret = <<>>

PlotIdle ==
    plot_call = <<>> /\ plot_pc = "idle" /\ ci_series = <<>>
        /\ plot_locals = <<>> /\ plot_ret = <<>>

InitValidate ==
    /\ ConstructorIdle
    /\ \E layout \in Layouts, y \in TargetSeqs, x1 \in FeatureSeqs,
          dy \in Dtypes, dx1 \in Dtypes, name \in TargetNames :
          vcall = [data |-> Table(layout, y, x1, dy, dx1), target_column_name |-> name]
    /\ vpc = "call"
    /\ vret = <<>>
    /\ ExtractorIdle
    /\ PlotIdle
    /\ RenderIdle

Validate ==
    /\ vpc = "call"
    /\ vret' = ValidateDataAndColumns(vcall.data, vcall.target_column_name)
    /\ vpc' = "returned"
    /\ UNCHANGED <<vcall, args, pc, self, raised, xcall, xpc, xlocals, xret,
                 plot_call, plot_pc, ci_series, plot_locals, plot_ret,
                   render_call, render_pc, render_ret>>

NextValidate == Validate

SpecValidate == InitValidate /\ [][NextValidate]_vars

\* ------------------------------------------- a CausalImpactData(...) call
Init ==
    /\ \E data \in ConstructorTables, pp \in PeriodArgs,
          name \in ConstructorTargetNames, std \in BOOLEAN, drop \in BOOLEAN :
          args = [data |-> data,
                  pre_intervention_period |-> pp[1],
                  post_intervention_period |-> pp[2],
                  drop_post_period_nan |-> drop,
                  target_col_name |-> name,
                  standardize_data |-> std]
    /\ pc = "parse_periods"
    /\ self = <<>>
    /\ raised = NoError
    /\ ValidateIdle
    /\ ExtractorIdle
    /\ PlotIdle
    /\ RenderIdle

\* One step of __init__: it sets attributes and moves on, or raises.
Step(at, result, next) ==
    /\ pc = at
    /\ IF result.raised
       THEN pc' = "raised" /\ raised' = result.error /\ self' = self
       ELSE pc' = next /\ raised' = raised /\ self' = result.self
    /\ UNCHANGED <<args, vcall, vpc, vret, xcall, xpc, xlocals, xret,
                 plot_call, plot_pc, ci_series, plot_locals, plot_ret,
                   render_call, render_pc, render_ret>>

ParsePeriods == Step("parse_periods", InitParsePeriods(args, self), "validate_columns")

ValidateColumns == Step("validate_columns", InitValidateColumns(args, self), "split")

SplitPeriods == Step("split", InitSplit(args, self), "standardize")

Standardize == Step("standardize", InitStandardize(args, self), "model_inputs")

BuildModelInputs == Step("model_inputs", InitModelInputs(args, self), "done")

Next ==
    \/ ParsePeriods
    \/ ValidateColumns
    \/ SplitPeriods
    \/ Standardize
    \/ BuildModelInputs

Spec == Init /\ [][Next]_vars

\* ------------------------------------- a call of _create_plot_component_df
InitPlot ==
    /\ ConstructorIdle
    /\ ValidateIdle
    /\ PlotIdle
    /\ RenderIdle
    /\ \E scales \in ScaleFamilies, stats \in StatFamilies, observed \in BOOLEAN,
          missing \in {"", "time", "post_period_end"}, nulls \in BOOLEAN,
          seed \in 0..1, component \in Components, alpha \in Alphas,
          hash_order \in HashOrders :
          xcall = [series |-> EvaluationTable(scales, stats, observed, missing, nulls, seed),
                   component |-> component,
                   alpha |-> alpha,
                   hash_order |-> hash_order]
    /\ xpc = "check_component"
    /\ xlocals = <<>>
    /\ xret = <<>>

\* One step of the function: it sets locals and moves on, raises, or returns
\* filtered_df after the last step.
PlotStep(at, result, next) ==
    /\ xpc = at
    /\ IF result.raised
       THEN xpc' = "raised" /\ xret' = result.error /\ xlocals' = xlocals
       ELSE /\ xpc' = next
            /\ xlocals' = result.self
            /\ xret' = IF next = "returned"
                       THEN [raised |-> FALSE, frame |-> result.self.filtered_df]
                       ELSE xret
    /\ UNCHANGED <<xcall, args, pc, self, raised, vcall, vpc, vret,
                   plot_call, plot_pc, ci_series, plot_locals, plot_ret,
                   render_call, render_pc, render_ret>>

PlotCheckComponent == PlotStep("check_component", CheckComponent(xcall, xlocals), "extract")

PlotExtractColumns == PlotStep("extract", ExtractColumns(xcall, xlocals), "melt")

PlotMelt == PlotStep("melt", MeltFiltered(xcall, xlocals), "scale_stat")

PlotDeriveScaleAndStat ==
    PlotStep("scale_stat", DeriveScaleAndStat(xcall, xlocals), "reshape")

PlotReshape == PlotStep("reshape", Reshape(xcall, xlocals), "returned")

NextPlot ==
    \/ PlotCheckComponent
    \/ PlotExtractColumns
    \/ PlotMelt
    \/ PlotDeriveScaleAndStat
    \/ PlotReshape

SpecPlot == InitPlot /\ [][NextPlot]_vars

\* ------------------------------------------------------ a call of plot()
InitPlotCall(series, kwargs) ==
    /\ ConstructorIdle
    /\ ValidateIdle
    /\ ExtractorIdle
    /\ RenderIdle
    /\ plot_call = [kwargs |-> kwargs, series_at_call |-> series]
    /\ ci_series = series
    /\ plot_pc = "kwargs"
    /\ plot_locals = <<>>
    /\ plot_ret = <<>>

\* plot(ci_model) and plot(ci_model, alpha=0.1) on every evaluation table.
InitFrame ==
    \E scales \in ScaleFamilies, stats \in StatFamilies, observed \in BOOLEAN,
       missing \in {"time", "", "post_period_end"}, nulls \in BOOLEAN,
       kwargs \in {<<>>, [alpha |-> 10]} :
       InitPlotCall(CiSeries(scales, stats, observed, missing, nulls), kwargs)

\* plot(ci_model, **kwargs) for the keyword arguments of KwargNames.
InitRender ==
    \E scales \in ScaleFamilies,
       stats \in {AllStatistics, <<"mean", "median", "lower", "upper">>,
                  <<"mean", "lower", "upper", "std">>},
       nulls \in BOOLEAN, missing \in {"time", "post_period_end"},
       given \in SUBSET KwargNames, backend \in Backends,
       static_plot \in BOOLEAN, show_median \in BOOLEAN, use_std_intervals \in BOOLEAN :
       InitPlotCall(CiSeries(scales, stats, TRUE, missing, nulls),
                    Kwargs(given, backend, static_plot, show_median, use_std_intervals))

\* One step of plot() or of its call of _create_plot_df.
FrameStep(at, result, next) ==
    /\ plot_pc = at
    /\ ci_series' = result.series
    /\ IF result.raised
       THEN plot_pc' = "raised" /\ plot_ret' = result.error /\ plot_locals' = plot_locals
       ELSE plot_pc' = next /\ plot_ret' = plot_ret /\ plot_locals' = result.self
    /\ UNCHANGED <<plot_call, args, pc, self, raised, vcall, vpc, vret,
                   xcall, xpc, xlocals, xret,
                   render_call, render_pc, render_ret>>

ProcessKwargs ==
    FrameStep("kwargs", PlotProcessKwargs(plot_call, plot_locals, ci_series), "set_time")

SetTime == FrameStep("set_time", DfSetTime(plot_call, plot_locals, ci_series), "lines")

LinesComponent == FrameStep("lines", DfLines(plot_call, plot_locals, ci_series), "bands")

BandsComponent == FrameStep("bands", DfBands(plot_call, plot_locals, ci_series), "std")

StdComponent == FrameStep("std", DfStd(plot_call, plot_locals, ci_series), "merge")

MergeComponents == FrameStep("merge", DfMerge(plot_call, plot_locals, ci_series), "zero")

ZeroColumn == FrameStep("zero", DfZero(plot_call, plot_locals, ci_series), "pretty")

PrettyLabels ==
    FrameStep("pretty", DfPretty(plot_call, plot_locals, ci_series), "band_filter")

BandFilter ==
    FrameStep("band_filter", PlotBandFilter(plot_call, plot_locals, ci_series),
              "median_filter")

MedianFilter ==
    FrameStep("median_filter", PlotMedianFilter(plot_call, plot_locals, ci_series),
              "dispatch")

Dispatch ==
    /\ plot_pc = "dispatch"
    /\ plot_ret' = PlotDispatch(plot_call, plot_locals)
    /\ plot_pc' = IF plot_ret'.raised THEN "raised" ELSE "returned"
    /\ UNCHANGED <<plot_call, ci_series, plot_locals, args, pc, self, raised,
                   vcall, vpc, vret, xcall, xpc, xlocals, xret,
                   render_call, render_pc, render_ret>>

NextFrame ==
    \/ ProcessKwargs
    \/ SetTime
    \/ LinesComponent
    \/ BandsComponent
    \/ StdComponent
    \/ MergeComponents
    \/ ZeroColumn
    \/ PrettyLabels
    \/ BandFilter
    \/ MedianFilter
    \/ Dispatch

SpecFrame == InitFrame /\ [][NextFrame]_vars

SpecRender == InitRender /\ [][NextFrame]_vars

\* ---------------------------------------------- a call of a renderer's markers
\* add_period_markers(ax, df, labels) or _create_base_layers(plot_df) on a
\* frame plot() may hand over.
InitMarkers ==
    /\ ConstructorIdle
    /\ ValidateIdle
    /\ ExtractorIdle
    /\ PlotIdle
    /\ \E function \in {"add_period_markers", "_create_base_layers"},
          bounds \in PeriodBounds, mask \in [PlotTimes -> BOOLEAN] :
          render_call = [function |-> function, plot_df |-> RendererFrame(bounds, mask)]
    /\ render_pc = "call"
    /\ render_ret = <<>>

RenderStep(function, result) ==
    /\ render_pc = "call"
    /\ render_call.function = function
    /\ render_ret' = result
    /\ render_pc' = IF result.raised THEN "raised" ELSE "returned"
    /\ UNCHANGED <<render_call, args, pc, self, raised, vcall, vpc, vret,
                   xcall, xpc, xlocals, xret,
                   plot_call, plot_pc, ci_series, plot_locals, plot_ret>>

MatplotlibMarkers == RenderStep("add_period_markers", AddPeriodMarkers(render_call.plot_df))

AltairMarkers == RenderStep("_create_base_layers", CreateBaseLayers(render_call.plot_df))

NextMarkers == MatplotlibMarkers \/ AltairMarkers

SpecMarkers == InitMarkers /\ [][NextMarkers]_vars

\* ---------------------------------------------- the conditions of a call
\* The column checks as the specification words them, read off the input of
\* the call, not off the validator.
CallColumns == Range(vcall.data.columns)

NamedTargetAbsent ==
    vcall.target_column_name # None /\ vcall.target_column_name \notin CallColumns

HasTarget == ~NamedTargetAbsent

CallTarget ==
    IF vcall.target_column_name = None THEN vcall.data.columns[1]
    ELSE vcall.target_column_name

CallTargetObserved ==
    {i \in 1..RowCount(vcall.data) : ~vcall.data.cells[CallTarget][i].na}

ConstantTarget ==
    /\ HasTarget
    /\ Cardinality({vcall.data.cells[CallTarget][i].num : i \in CallTargetObserved}) = 1

FewObservations == HasTarget /\ Cardinality(CallTargetObserved) < 3

MissingFeatureValue ==
    /\ HasTarget
    /\ \E c \in CallColumns \ {CallTarget} :
          \E i \in 1..RowCount(vcall.data) : vcall.data.cells[c][i].na

NonNumericColumn ==
    HasTarget /\ \E c \in CallColumns : vcall.data.dtype[c] # "float"

RaisedAs(ret, type) == ret.raised /\ ret.type = type

\* C3: _validate_data_and_columns raises KeyError exactly when an explicitly
\* named target column is absent, raises ValueError for a constant target, for
\* fewer than 3 non-missing target values, for a missing feature value and for
\* a non-numeric column, and returns without error when none of these holds.
C3_ErrorClasses ==
    vpc = "returned" =>
        /\ RaisedAs(vret, "KeyError") <=> NamedTargetAbsent
        /\ (ConstantTarget \/ FewObservations \/ MissingFeatureValue \/ NonNumericColumn)
              => RaisedAs(vret, "ValueError")
        /\ ~(NamedTargetAbsent \/ ConstantTarget \/ FewObservations
               \/ MissingFeatureValue \/ NonNumericColumn)
              => ~vret.raised

Truth(b) == IF b THEN 1 ELSE 0

ViolatedChecks ==
    Truth(NamedTargetAbsent) + Truth(ConstantTarget) + Truth(FewObservations)
        + Truth(MissingFeatureValue) + Truth(NonNumericColumn)

EarliestFailingCheck ==
    IF NamedTargetAbsent THEN Raise("KeyError", MsgNotFound)
    ELSE IF ConstantTarget THEN Raise("ValueError", MsgConstant)
    ELSE IF FewObservations THEN Raise("ValueError", MsgObservations)
    ELSE IF MissingFeatureValue THEN Raise("ValueError", MsgMissing)
    ELSE Raise("ValueError", MsgNumeric)

\* C4: a table that violates several column checks at once is reported with
\* the error of the earliest failing check in the order target absent,
\* constant target, fewer than 3 observations, missing feature value,
\* non-numeric column.
C4_EarliestCheckReported ==
    (vpc = "returned" /\ ViolatedChecks >= 2) => vret = EarliestFailingCheck

\* ------------------------------------------------ the constructed dataset
Constructed == pc = "done"

\* The rows of a table as (index label, row values) pairs.
RowSet(t) ==
    {<<t.index[k], [c \in Range(t.columns) |-> t.cells[c][k]]>> : k \in 1..RowCount(t)}

IndexIncreasing(t) ==
    \A j, k \in 1..RowCount(t) : j < k => t.index[j] < t.index[k]

RowHasNaN(r) == \E c \in DOMAIN r[2] : r[2][c].na

PreStart == self.pre_intervention_period[1]
PreEnd == self.pre_intervention_period[2]
PostStart == self.post_intervention_period[1]
PostEnd == self.post_intervention_period[2]

\* C1: in every constructed dataset pre_intervention_data holds exactly the
\* rows of the validated table with pre_start <= index <= pre_end and
\* after_pre_intervention_data exactly the rows with index > pre_end (the gap
\* before post_start and the tail after post_end included), in index order;
\* the slices are disjoint and the same for every post-period.
C1_PeriodSlices ==
    Constructed =>
        LET pre == self.pre_intervention_data
            after == self.after_pre_intervention_data
        IN  /\ pre.columns = self.data.columns /\ after.columns = self.data.columns
            /\ RowSet(pre) = {r \in RowSet(self.data) : PreStart <= r[1] /\ r[1] <= PreEnd}
            /\ RowSet(after) = {r \in RowSet(self.data) : r[1] > PreEnd}
            /\ IndexIncreasing(pre) /\ IndexIncreasing(after)
            /\ Range(pre.index) \cap Range(after.index) = {}
            /\ \A pp \in ValidPeriodArgs :
                  pp[1] = args.pre_intervention_period =>
                      LET r == Construct([args EXCEPT !.post_intervention_period = pp[2]])
                      IN  /\ ~r.raised
                          /\ r.self.pre_intervention_data = pre
                          /\ r.self.after_pre_intervention_data = after

\* C1 witness: a dataset with a row in the gap before post_start and a row
\* after post_end, both in after_pre_intervention_data.
C1_Witness ==
    /\ Constructed
    /\ RowCount(self.pre_intervention_data) >= 1
    /\ \E t \in Range(self.after_pre_intervention_data.index) : t < PostStart
    /\ \E t \in Range(self.after_pre_intervention_data.index) : t > PostEnd

\* The target the call names, when the table has it.
ArgsHasTarget ==
    args.target_col_name = None \/ args.target_col_name \in Range(args.data.columns)

ArgsTarget ==
    IF args.target_col_name = None THEN args.data.columns[1] ELSE args.target_col_name

ArgsTargetValues ==
    {args.data.cells[ArgsTarget][i].num :
        i \in {j \in 1..RowCount(args.data) : ~args.data.cells[ArgsTarget][j].na}}

ArgsConstantTarget == ArgsHasTarget /\ Cardinality(ArgsTargetValues) = 1

PeriodsAccepted == "pre_intervention_period" \in DOMAIN self

\* C2: a table whose target column is constant never gets past column
\* validation: once the periods are accepted __init__ raises the ValueError
\* of the constant-target check, and no validated table and no slice is set.
C2_ConstantTargetRejected ==
    ArgsConstantTarget =>
        /\ pc \in {"parse_periods", "validate_columns", "raised"}
        /\ (pc = "raised" /\ PeriodsAccepted) => raised = Raise("ValueError", MsgConstant)
        /\ DOMAIN self \cap {"data", "pre_intervention_data", "after_pre_intervention_data",
                             "normalized_pre_intervention_data",
                             "normalized_after_pre_intervention_data"} = {}

\* C2 witness: the constant-target error raised for a target with several
\* equal values and a missing one.
C2_Witness ==
    /\ pc = "raised"
    /\ raised = Raise("ValueError", MsgConstant)
    /\ ArgsConstantTarget
    /\ \E i \in 1..RowCount(args.data) : args.data.cells[ArgsTarget][i].na

PositionIn(s, x) == CHOOSE i \in DOMAIN s : s[i] = x

\* C5: a constructed dataset holds the target column first (the input's first
\* column when no name is given), then the other input columns in their
\* original relative order as feature_columns (None for a single column); the
\* target has at least 3 non-missing values and is not constant, no feature
\* value is missing and every column is numeric.
C5_ValidatedTable ==
    Constructed =>
        LET d == self.data
            others == Range(args.data.columns) \ {self.target_col}
            fc == OrEmpty(self.feature_columns)
            observed == {i \in 1..RowCount(d) : ~d.cells[self.target_col][i].na}
        IN  /\ self.target_col = ArgsTarget
            /\ d.columns = <<self.target_col>> \o fc
            /\ Range(fc) = others /\ Len(fc) = Cardinality(others)
            /\ \A j, k \in DOMAIN fc :
                  j < k => PositionIn(args.data.columns, fc[j])
                              < PositionIn(args.data.columns, fc[k])
            /\ self.feature_columns.is_none <=> Len(args.data.columns) = 1
            /\ \A c \in Range(d.columns) : d.cells[c] = args.data.cells[c]
            /\ Cardinality(observed) >= 3
            /\ Cardinality({d.cells[self.target_col][i].num : i \in observed}) > 1
            /\ \A c \in Range(fc) : \A i \in 1..RowCount(d) : ~d.cells[c][i].na
            /\ \A c \in Range(d.columns) : d.dtype[c] = "float"

\* C5 witness: a dataset whose target was named between two feature columns.
C5_Witness ==
    /\ Constructed
    /\ Len(OrEmpty(self.feature_columns)) = 2
    /\ args.data.columns[1] # self.target_col \/ args.target_col_name = None

\* C6 (as claimed): without standardization both normalized slices equal the
\* raw slices and outcome_scaler is None.
C6_NormalizedEqualsRaw ==
    (Constructed /\ ~self.standardize_data) =>
        /\ self.normalized_pre_intervention_data = self.pre_intervention_data
        /\ self.normalized_after_pre_intervention_data = self.after_pre_intervention_data
        /\ self.outcome_scaler = None

\* C6 (amended): without standardization normalized_pre_intervention_data
\* equals pre_intervention_data, outcome_scaler is None, and
\* normalized_after_pre_intervention_data equals after_pre_intervention_data
\* when drop_post_period_nan is false and is after_pre_intervention_data
\* without its rows holding a missing value when drop_post_period_nan is true.
C6_NormalizedEqualsRawUpToDrop ==
    (Constructed /\ ~self.standardize_data) =>
        LET after == self.after_pre_intervention_data
            norm == self.normalized_after_pre_intervention_data
        IN  /\ self.normalized_pre_intervention_data = self.pre_intervention_data
            /\ self.outcome_scaler = None
            /\ ~args.drop_post_period_nan => norm = after
            /\ args.drop_post_period_nan =>
                  /\ norm.columns = after.columns
                  /\ RowSet(norm) = {r \in RowSet(after) : ~RowHasNaN(r)}
                  /\ IndexIncreasing(norm)

\* C6 witness: an unstandardized dataset whose post-slice lost a row with a
\* missing target and kept another.
C6_Witness ==
    /\ Constructed /\ ~self.standardize_data /\ args.drop_post_period_nan
    /\ RowCount(self.normalized_after_pre_intervention_data) >= 1
    /\ RowCount(self.normalized_after_pre_intervention_data)
          < RowCount(self.after_pre_intervention_data)

\* C7: with feature columns, normalized_whole_period_features has one row per
\* row of the pre-period slice followed by one row per row of the
\* after-pre-period slice (len(pre_intervention_data) + num_steps_forecast
\* rows), holds the feature columns in order without the target, and ends
\* with a column intercept_ equal to 1 in every row; without feature columns
\* it is None.
C7_WholePeriodFeatures ==
    Constructed =>
        LET w == self.normalized_whole_period_features
        IN  IF self.feature_columns.is_none THEN w.is_none
            ELSE /\ ~w.is_none
                 /\ RowCount(w.frame) = RowCount(self.pre_intervention_data)
                                          + self.num_steps_forecast
                 /\ w.frame.index = self.pre_intervention_data.index
                                      \o self.after_pre_intervention_data.index
                 /\ w.frame.columns = self.feature_columns.cols \o <<"intercept_">>
                 /\ self.target_col \notin Range(w.frame.columns)
                 /\ \A i \in 1..RowCount(w.frame) : w.frame.cells["intercept_"][i] = Num(1)

\* The input tables that agree with the call's table on every row with index
\* in [pre_start, pre_end], whatever the rows after pre_end hold.
AgreeOnPrePeriod(d1, d2, period) ==
    /\ d1.columns = d2.columns /\ d1.dtype = d2.dtype /\ d1.index = d2.index
    /\ \A i \in 1..RowCount(d1) :
          (period[1] <= d1.index[i] /\ d1.index[i] <= period[2]) =>
              \A c \in Range(d1.columns) : d1.cells[c][i] = d2.cells[c][i]

PrePeriodTwins ==
    {d \in ConstructorTables : AgreeOnPrePeriod(args.data, d, args.pre_intervention_period)}

TwinDataset(d) == Construct([args EXCEPT !.data = d])

\* C8: with standardization, the scaler of both slices and the target-only
\* outcome_scaler are fitted on the pre-period slice alone: every other input
\* table that agrees on the rows with index in [pre_start, pre_end] gives the
\* same fit inputs, the same fitted scalers and the same normalized
\* pre-period slice.
C8_ScalersFitOnPrePeriodOnly ==
    (Constructed /\ self.standardize_data) =>
        \A d \in PrePeriodTwins :
            LET twin == TwinDataset(d)
            IN  ~twin.raised =>
                  /\ ScalerFitInput(twin.self) = ScalerFitInput(self)
                  /\ OutcomeScalerFitInput(twin.self) = OutcomeScalerFitInput(self)
                  /\ OutcomeScalerFitInput(self).columns = <<self.target_col>>
                  /\ twin.self.scaler = self.scaler
                  /\ twin.self.outcome_scaler = self.outcome_scaler
                  /\ twin.self.normalized_pre_intervention_data
                        = self.normalized_pre_intervention_data

\* C8 witness: a standardized dataset and a second one from a table that
\* differs only after pre_end.
C8_Witness ==
    /\ Constructed /\ self.standardize_data
    /\ \E d \in PrePeriodTwins : d # args.data /\ ~TwinDataset(d).raised

\* C9: pre_intervention_target_ts has one entry per row of the pre-period
\* slice, in index order, is_missing being true exactly at the rows whose
\* normalized target is missing; no pre-period row is dropped, whatever
\* drop_post_period_nan is.
C9_MaskedTargetSeries ==
    Constructed =>
        LET ts == self.pre_intervention_target_ts
            norm == self.normalized_pre_intervention_data
            n == RowCount(self.pre_intervention_data)
        IN  /\ Len(ts.time_series) = n /\ Len(ts.is_missing) = n
            /\ norm.index = self.pre_intervention_data.index
            /\ \A i \in 1..n :
                  /\ ts.time_series[i] = norm.cells[self.target_col][i]
                  /\ ts.is_missing[i] <=> norm.cells[self.target_col][i].na

\* C9 witness: a pre-period row with a missing target kept, and flagged, in a
\* dataset built with drop_post_period_nan.
C9_Witness ==
    /\ Constructed /\ args.drop_post_period_nan
    /\ \E i \in DOMAIN self.pre_intervention_target_ts.is_missing :
          self.pre_intervention_target_ts.is_missing[i]
    /\ \E i \in DOMAIN self.pre_intervention_target_ts.is_missing :
          ~self.pre_intervention_target_ts.is_missing[i]

\* ----------------------------------------------------------- C10 (plot.py)
RecognizedKinds == {"lines", "bands", "std"}

\* The call has got past the check of its component argument.
ComponentChecked == xpc \notin {"idle", "check_component"}

InvalidArgumentError == xpc = "raised" /\ RaisedAs(xret, "ValueError")

\* C10: _create_plot_component_df called with a component that is not one of
\* lines, bands, std fails with a ValueError whose message names each member of
\* the allowed set and the rejected value, and it fails before it has selected,
\* melted or reshaped any column of the evaluation table (no local is set),
\* whatever the table holds; for lines, bands and std no ValueError is raised.
C10_InvalidComponentRejected ==
    ComponentChecked =>
        IF xcall.component \notin RecognizedKinds
        THEN /\ InvalidArgumentError
             /\ \A kind \in RecognizedKinds : Contains(xret.msg, "'" \o kind \o "'")
             /\ Contains(xret.msg, "Got '" \o xcall.component \o "'")
             /\ xlocals = <<>>
        ELSE ~InvalidArgumentError

\* An unrecognized component is rejected for a table without a time column,
\* on which the melt of a recognized component would fail.
C10_Witness ==
    /\ InvalidArgumentError
    /\ xcall.component = "invalid"
    /\ ~HasColumn(xcall.series, "time")

\* ----------------------------------------------------------- C11 (plot.py)
ScaleOfPrefix ==
    [p \in {"posterior_", "point_effects_", "cumulative_effects_"} |->
        IF p = "posterior_" THEN "original"
        ELSE IF p = "point_effects_" THEN "point_effects"
        ELSE "cumulative_effects"]

Statistics == {"mean", "median", "lower", "upper", "std"}

Scales == {"original", "point_effects", "cumulative_effects"}

\* The value columns of the melt, in the order of their blocks of rows.
MeltedColumns == SelectSeq(xlocals.extracted_columns, LAMBDA c : c \notin Range(base_columns))

\* scale and stat have been derived for the rows of melted_df.
ScaleAndStatDerived == xpc = "reshape"

\* The rows of melted_df that come from the j-th value column.
MeltedBlock(j) ==
    {xlocals.melted_df.rows[i] :
        i \in ((j - 1) * NumTimes + 1)..(j * NumTimes)}

FrameBuilt == plot_pc # "idle" /\ "main_plot_df" \in DOMAIN plot_locals

PlotFrame == plot_locals.main_plot_df

LinesTable == plot_locals.df.lines_df

BandsTable == plot_locals.df.bands_df

RowsOf(frame) == {frame.rows[i] : i \in DOMAIN frame.rows}

Triple(row) == <<row["time"], row["scale"], row["stat"]>>

\* The positions of the rows of the frame with the triple tr.
RowsWithTriple(tr) == {i \in DOMAIN PlotFrame.rows : Triple(PlotFrame.rows[i]) = tr}

TableAtCall == plot_call.series_at_call.frame

\* The evaluation table has a standard-deviation column.
TableHasStd == \E k \in DOMAIN TableAtCall.columns : Contains(TableAtCall.columns[k], "std")

\* The evaluation table has a value of statistic st, at the scale, in the row
\* of index label t.
TableValueAt(t, scale, st) ==
    \E p \in DOMAIN ScaleOfPrefix : \E i \in DOMAIN TableAtCall.rows :
        /\ ScaleOfPrefix[p] = scale
        /\ plot_call.series_at_call.index[i] = t
        /\ HasColumn(TableAtCall, p \o st)
        /\ ~TableAtCall.rows[i][p \o st].na

QuantileBandAt(t, scale) ==
    TableValueAt(t, scale, "lower") \/ TableValueAt(t, scale, "upper")

StdBandAt(t, scale) == TableValueAt(t, scale, "mean") /\ TableValueAt(t, scale, "std")

SameKey(a, b) == \A k \in DOMAIN merge_on : a[merge_on[k]] = b[merge_on[k]]

\* No row of the band tables has the key of the row.
NoBandData(row) == \A b \in RowsOf(BandsTable) : ~SameKey(row, b)

IsNullIn(row, c) == c \notin DOMAIN row \/ row[c].na

\* C12: the frame _create_plot_df returns has exactly the (time, scale, stat)
\* triples of the lines component table, and when the evaluation table has no
\* std column every triple occurs in exactly one row.
C12_TriplesOfLines ==
    FrameBuilt =>
        /\ {Triple(r) : r \in RowsOf(PlotFrame)} = {Triple(r) : r \in RowsOf(LinesTable)}
        /\ ~TableHasStd =>
              \A r \in RowsOf(LinesTable) : Cardinality(RowsWithTriple(Triple(r))) = 1

\* A frame without std bands that has rows with a quantile band and rows with
\* none, at more than one scale.
C12_Witness ==
    /\ FrameBuilt
    /\ ~TableHasStd
    /\ \E r \in RowsOf(PlotFrame) : r["band_method"] = "quantiles"
    /\ \E r \in RowsOf(PlotFrame) : r["band_method"] = NullText
    /\ \E r \in RowsOf(PlotFrame) : r["scale"] = "cumulative_effects"

\* C13: for a line entry (time, scale, stat) at whose (time, scale) the
\* evaluation table has both a quantile band and a mean and std, the frame has
\* exactly two rows, one with band_method quantiles and one with std; no
\* band_method occurs twice for one (time, scale, stat); and without a column
\* containing std no row has band_method std.
C13_TwoBandMethods ==
    FrameBuilt =>
        /\ \A r \in RowsOf(LinesTable) :
              (QuantileBandAt(r["time"], r["scale"]) /\ StdBandAt(r["time"], r["scale"])) =>
                  /\ Cardinality(RowsWithTriple(Triple(r))) = 2
                  /\ {PlotFrame.rows[i]["band_method"] : i \in RowsWithTriple(Triple(r))}
                        = {"quantiles", "std"}
        /\ \A i, j \in DOMAIN PlotFrame.rows :
              (/\ Triple(PlotFrame.rows[i]) = Triple(PlotFrame.rows[j])
               /\ PlotFrame.rows[i]["band_method"] = PlotFrame.rows[j]["band_method"]) => i = j
        /\ ~TableHasStd => \A r \in RowsOf(PlotFrame) : r["band_method"] # "std"

\* A frame with a quantiles row and a std row for the same line entry.
C13_Witness ==
    /\ FrameBuilt
    /\ \E i, j \in DOMAIN PlotFrame.rows :
          /\ Triple(PlotFrame.rows[i]) = Triple(PlotFrame.rows[j])
          /\ PlotFrame.rows[i]["band_method"] = "quantiles"
          /\ PlotFrame.rows[j]["band_method"] = "std"

\* C14: every row of the lines table is in the frame; a row of the frame has
\* lower, upper and band_method null exactly if no row of the band tables has
\* its (time, scale, period bounds) key, and otherwise carries the band of
\* such a row; and every row of the frame comes from a row of the lines table.
C14_LeftJoin ==
    FrameBuilt =>
        /\ \A l \in RowsOf(LinesTable) : \E r \in RowsOf(PlotFrame) :
              \A c \in Range(LinesTable.columns) : r[c] = l[c]
        /\ \A r \in RowsOf(PlotFrame) :
              /\ \E l \in RowsOf(LinesTable) :
                    \A c \in Range(LinesTable.columns) : r[c] = l[c]
              /\ (r["band_method"] = NullText) = NoBandData(r)
              /\ IsNullIn(r, "lower") = NoBandData(r)
              /\ IsNullIn(r, "upper") = NoBandData(r)
              /\ ~NoBandData(r) =>
                    \E b \in RowsOf(BandsTable) :
                        /\ SameKey(r, b)
                        /\ r["band_method"] = b["band_method"]
                        /\ r["lower"] = b["lower"]
                        /\ r["upper"] = b["upper"]

\* A frame with a line row without band, a line row with a band, and a band
\* row whose key no line row has.
C14_Witness ==
    /\ FrameBuilt
    /\ \E r \in RowsOf(PlotFrame) : NoBandData(r)
    /\ \E r \in RowsOf(PlotFrame) : ~NoBandData(r)
    /\ \E b \in RowsOf(BandsTable) : \A l \in RowsOf(LinesTable) : ~SameKey(l, b)

\* C15: in every row of the frame zero is null if scale is original and 0
\* otherwise.
C15_ZeroColumn ==
    FrameBuilt =>
        \A r \in RowsOf(PlotFrame) :
            IF r["scale"] = "original" THEN r["zero"].na
            ELSE r["zero"] = Float(0, 1)

\* Rows of the original scale and of another scale, with and without band.
C15_Witness ==
    /\ FrameBuilt
    /\ \E r \in RowsOf(PlotFrame) : r["scale"] = "original" /\ r["band_method"] = "std"
    /\ \E r \in RowsOf(PlotFrame) : r["scale"] = "point_effects" /\ r["band_method"] = NullText
    /\ \E r \in RowsOf(PlotFrame) :
          r["scale"] = "cumulative_effects" /\ r["band_method"] = "quantiles"


\* ------------------------------------------------------------- C16 .. C19
\* The value plot() uses for a keyword argument: the one given, else the
\* documented default.
KwargOrDefault(k) ==
    IF k \in DOMAIN plot_call.kwargs THEN plot_call.kwargs[k] ELSE DefaultPlotParams[k]

\* plot() called a renderer and returned its chart.
PlotRendered == plot_pc = "returned"

\* plot() ended, with a chart or with an exception.
PlotEnded == plot_pc \in {"returned", "raised"}

\* The frame handed to the renderer.
RenderedFrame == plot_ret.plot_df

BandMethodsOf(frame) == {r["band_method"] : r \in RowsOf(frame)}

StatsOf(frame) == {r["stat"] : r \in RowsOf(frame)}

\* The rows of the frame without the column stat_pretty, which plot() may
\* re-categorise.
PlainRows(frame) ==
    {[c \in DOMAIN r \ {"stat_pretty"} |-> r[c]] : r \in RowsOf(frame)}

\* C16: the frame handed to the renderer holds one band method: with
\* use_std_intervals no row has band_method quantiles, without it no row has
\* band_method std; the rows with a null band_method are kept in both cases
\* (but for the median rows, which the median option decides on).
C16_OneBandMethod ==
    PlotRendered =>
        /\ IF KwargOrDefault("use_std_intervals")
           THEN "quantiles" \notin BandMethodsOf(RenderedFrame)
           ELSE "std" \notin BandMethodsOf(RenderedFrame)
        /\ \A r \in PlainRows(PlotFrame) :
              r["band_method"] = NullText /\ r["stat"] # "median"
                  => r \in PlainRows(RenderedFrame)

\* The part of C16 the code satisfies: without use_std_intervals no std row
\* reaches the renderer, and the rows with a null band_method are kept.
C16_QuantileBandsOnly ==
    PlotRendered =>
        /\ ~KwargOrDefault("use_std_intervals")
              => "std" \notin BandMethodsOf(RenderedFrame)
        /\ \A r \in PlainRows(PlotFrame) :
              r["band_method"] = NullText /\ r["stat"] # "median"
                  => r \in PlainRows(RenderedFrame)

\* C17: the frame handed to the renderer has rows of stat median exactly
\* when show_median is true and the table has a median column, and the mean
\* rows are handed over in both cases.
C17_MedianOnRequest ==
    PlotRendered =>
        /\ "median" \in StatsOf(RenderedFrame)
              <=> (KwargOrDefault("show_median") /\ "median" \in StatsOf(PlotFrame))
        /\ "mean" \in StatsOf(PlotFrame) => "mean" \in StatsOf(RenderedFrame)

\* What the code does instead: the median rows reach the renderer exactly
\* when show_median is false and the renderer is not the static altair one.
C17_MedianUnlessRequested ==
    PlotRendered =>
        /\ "median" \in StatsOf(RenderedFrame)
              <=> /\ ~KwargOrDefault("show_median")
                  /\ "median" \in StatsOf(PlotFrame)
                  /\ plot_ret.renderer # "_draw_classic_plot"
        /\ "mean" \in StatsOf(PlotFrame) => "mean" \in StatsOf(RenderedFrame)

AllowedBackends == {"altair", "matplotlib"}

\* plot() reached its choice of a renderer: the frame was built and filtered.
BackendChosen == PlotEnded /\ "plot_df" \in DOMAIN plot_locals

BackendError(backend) ==
    [raised |-> TRUE, type |-> "ValueError", msg |-> MsgBackend(backend)]

\* C18: once the frame is built, a backend other than altair and matplotlib
\* makes plot() fail with a ValueError that names the two allowed backends
\* and the value received, and no chart is returned; with matplotlib (the
\* default) or altair there is no such error, the chart being the one of the
\* matplotlib renderer, of the static altair renderer when static_plot is
\* true, and of the interactive altair renderer otherwise.
C18_BackendDispatch ==
    BackendChosen =>
        LET backend == KwargOrDefault("backend")
        IN  IF backend \notin AllowedBackends
            THEN /\ plot_pc = "raised"
                 /\ plot_ret = BackendError(backend)
                 /\ Contains(plot_ret.msg, "'altair'")
                 /\ Contains(plot_ret.msg, "'matplotlib'")
                 /\ Contains(plot_ret.msg, backend)
            ELSE /\ plot_pc = "returned"
                 /\ ~plot_ret.raised
                 /\ plot_ret.renderer =
                        IF backend = "matplotlib" THEN "_draw_matplotlib_plot"
                        ELSE IF KwargOrDefault("static_plot") THEN "_draw_classic_plot"
                        ELSE "_draw_interactive_plot"

C18_Witness ==
    /\ BackendChosen
    /\ KwargOrDefault("backend") = "plotly"
    /\ plot_pc = "raised"
    /\ plot_ret.type = "ValueError"

\* C19: when plot() has ended, with a chart or with an exception, the
\* evaluation table of the caller has the columns and the values it had at the
\* call.
C19_TableUnchanged ==
    PlotEnded => ci_series = plot_call.series_at_call

\* What the code does instead: the table of the caller ends with a column
\* time holding its index, and is otherwise as it was at the call.
C19_TimeColumnSet ==
    PlotEnded =>
        /\ HasColumn(ci_series.frame, "time")
        /\ ColumnOf(ci_series.frame, "time") = ci_series.index
        /\ DropColumns(ci_series.frame, {"time"})
              = DropColumns(plot_call.series_at_call.frame, {"time"})
        /\ ci_series.index = plot_call.series_at_call.index

\* -------------------------------------------------------------------- C20
\* _create_plot_component_df(series, "std", alpha) returned a frame.
StdReturned == xpc = "returned" /\ xcall.component = "std"

\* The (time, prefix) with a mean value and a std value in the table.
HasMeanAndStd(t, p) ==
    /\ HasColumn(xcall.series, p \o "mean")
    /\ HasColumn(xcall.series, p \o "std")
    /\ ~xcall.series.rows[t][p \o "mean"].na
    /\ ~xcall.series.rows[t][p \o "std"].na

\* The rows of the returned frame at a time and a scale.
StdRowsAt(t, scale) ==
    {i \in DOMAIN xret.frame.rows :
        xret.frame.rows[i]["time"] = t /\ xret.frame.rows[i]["scale"] = scale}

\* C20: for the std component, each (time, scale) with a mean and a std value
\* has exactly one row in the returned frame, with band_method std,
\* lower = mean - z * std and upper = mean + z * std for the critical value z
\* of alpha, so that lower <= upper and lower + upper = 2 * mean (std is not
\* negative); the frame has no column mean or std.
C20_StdBands ==
    StdReturned =>
        /\ ~HasColumn(xret.frame, "mean")
        /\ ~HasColumn(xret.frame, "std")
        /\ \A t \in PlotTimes : \A p \in DOMAIN ScaleOfPrefix :
              HasMeanAndStd(t, p) =>
                 LET mean == xcall.series.rows[t][p \o "mean"]
                     std == xcall.series.rows[t][p \o "std"]
                     z == z_score(xcall.alpha)
                 IN  /\ Cardinality(StdRowsAt(t, ScaleOfPrefix[p])) = 1
                     /\ \A i \in StdRowsAt(t, ScaleOfPrefix[p]) :
                           LET row == xret.frame.rows[i]
                           IN  /\ row["band_method"] = "std"
                               /\ row["lower"] = Sub(mean, Mul(z, std))
                               /\ row["upper"] = Add(mean, Mul(z, std))
                               /\ LessEq(row["lower"], row["upper"])
                               /\ Add(row["lower"], row["upper"]) = Mul(Float(2, 1), mean)

\* A returned row with a positive std: lower < mean < upper.
C20_Witness ==
    /\ StdReturned
    /\ \E t \in PlotTimes : \E p \in DOMAIN ScaleOfPrefix :
          /\ HasMeanAndStd(t, p)
          /\ xcall.series.rows[t][p \o "std"].num > 0
          /\ \E i \in StdRowsAt(t, ScaleOfPrefix[p]) :
                ~LessEq(xret.frame.rows[i]["upper"], xret.frame.rows[i]["lower"])

\* -------------------------------------------------------------------- C21
PrettyOfScale ==
    [m \in Scales |->
        IF m = "original" THEN "Original"
        ELSE IF m = "point_effects" THEN "Pointwise"
        ELSE "Cumulative"]

PrettyOfStat ==
    [m \in {"observed", "mean", "median"} |->
        IF m = "observed" THEN "Observed"
        ELSE IF m = "mean" THEN "Mean"
        ELSE "Median"]

\* C21: in every row of the frame _create_plot_df returns, scale_pretty is
\* Original, Pointwise or Cumulative for scale original, point_effects or
\* cumulative_effects, and stat_pretty is Observed, Mean or Median for stat
\* observed, mean or median, so neither is null for such a row; the two
\* columns are ordered categoricals with the orders
\* Original < Pointwise < Cumulative and Observed < Mean < Median.
C21_PrettyLabels ==
    FrameBuilt =>
        /\ "categories" \in DOMAIN PlotFrame
        /\ PlotFrame.categories["scale_pretty"] = <<"Original", "Pointwise", "Cumulative">>
        /\ PlotFrame.categories["stat_pretty"] = <<"Observed", "Mean", "Median">>
        /\ \A r \in RowsOf(PlotFrame) :
              /\ r["scale"] \in DOMAIN PrettyOfScale
                    => r["scale_pretty"] = PrettyOfScale[r["scale"]]
              /\ r["stat"] \in DOMAIN PrettyOfStat
                    => r["stat_pretty"] = PrettyOfStat[r["stat"]]
              /\ (r["scale"] \in DOMAIN PrettyOfScale /\ r["stat"] \in DOMAIN PrettyOfStat)
                    => r["scale_pretty"] # NullText /\ r["stat_pretty"] # NullText

\* A frame with rows labelled Cumulative, Pointwise, Median and Observed.
C21_Witness ==
    /\ FrameBuilt
    /\ \E r \in RowsOf(PlotFrame) :
          r["scale_pretty"] = "Cumulative" /\ r["stat_pretty"] = "Median"
    /\ \E r \in RowsOf(PlotFrame) :
          r["scale_pretty"] = "Pointwise" /\ r["stat_pretty"] = "Mean"
    /\ \E r \in RowsOf(PlotFrame) :
          r["scale_pretty"] = "Original" /\ r["stat_pretty"] = "Observed"

\* -------------------------------------------------------------------- C22
\* The dataset built from the same arguments with the other value of
\* drop_post_period_nan.
FlagTwin == Construct([args EXCEPT !.drop_post_period_nan = ~@])

\* The attributes drop_post_period_nan may change.
DropAffected == {"normalized_after_pre_intervention_data", "normalized_whole_period_features"}

\* C22: drop_post_period_nan changes only
\* normalized_after_pre_intervention_data and the feature frame built from
\* it: the dataset built with the other value of the flag has the same
\* pre_intervention_data, after_pre_intervention_data,
\* normalized_pre_intervention_data, num_steps_forecast and every other
\* attribute; with the flag the normalized post-slice is the one built
\* without it less every row holding a missing value, and num_steps_forecast
\* is the number of rows of after_pre_intervention_data, rows with missing
\* values included.
C22_DropPostPeriodNanEffect ==
    Constructed =>
        LET twin == FlagTwin
            dropped == IF args.drop_post_period_nan THEN self ELSE twin.self
            full == IF args.drop_post_period_nan THEN twin.self ELSE self
            kept == dropped.normalized_after_pre_intervention_data
            all == full.normalized_after_pre_intervention_data
        IN  /\ ~twin.raised
            /\ DOMAIN twin.self = DOMAIN self
            /\ \A f \in DOMAIN self \ DropAffected : twin.self[f] = self[f]
            /\ self.num_steps_forecast = RowCount(self.after_pre_intervention_data)
            /\ all.index = self.after_pre_intervention_data.index
            /\ kept.columns = all.columns
            /\ RowSet(kept) = {r \in RowSet(all) : ~RowHasNaN(r)}
            /\ IndexIncreasing(kept)

\* A standardized dataset whose normalized post-slice differs between the two
\* values of the flag, num_steps_forecast counting the dropped row.
C22_Witness ==
    /\ Constructed /\ self.standardize_data /\ args.drop_post_period_nan
    /\ ~FlagTwin.raised
    /\ FlagTwin.self.normalized_after_pre_intervention_data
          # self.normalized_after_pre_intervention_data
    /\ self.num_steps_forecast > RowCount(self.normalized_after_pre_intervention_data)
    /\ RowCount(self.normalized_after_pre_intervention_data) >= 1

\* -------------------------------------------------------------------- C23
\* The renderer's function returned its vertical rules.
MarkersDecided == render_pc = "returned"

MarkerKeys(ret) == {m.key : m \in ret.vlines}

MarkerRows == RowsOf(render_call.plot_df)

\* The markers of the rule: post_period_start always, pre_period_start when
\* a row is before it, pre_period_end when a row is strictly between it and
\* post_period_start, post_period_end when a row is after it.
MarkersOfRule ==
    {"post_period_start"}
        \cup {k \in {"pre_period_start"} :
                 \E r, b \in MarkerRows : r["time"] < b["pre_period_start"]}
        \cup {k \in {"pre_period_end"} :
                 \E r, b \in MarkerRows :
                    r["time"] > b["pre_period_end"] /\ r["time"] < b["post_period_start"]}
        \cup {k \in {"post_period_end"} :
                 \E r, b \in MarkerRows : r["time"] > b["post_period_end"]}

\* What the other renderer does with the same frame.
OtherRenderer ==
    IF render_call.function = "add_period_markers"
    THEN CreateBaseLayers(render_call.plot_df)
    ELSE AddPeriodMarkers(render_call.plot_df)

\* C23: add_period_markers of the matplotlib renderer and
\* _create_base_layers of the altair renderers draw the same period markers
\* for the same frame, by one rule: post_period_start always,
\* pre_period_start exactly when some row has time < pre_period_start,
\* pre_period_end exactly when some row has time strictly between
\* pre_period_end and post_period_start, post_period_end exactly when some
\* row has time > post_period_end.
C23_PeriodMarkers ==
    MarkersDecided =>
        /\ MarkerKeys(render_ret) = MarkersOfRule
        /\ ~OtherRenderer.raised => MarkerKeys(OtherRenderer) = MarkerKeys(render_ret)

\* Both renderers draw pre_period_start, pre_period_end and
\* post_period_start, and not post_period_end, for a frame with rows before
\* the pre-period and between the periods and none after the post-period.
C23_Witness ==
    /\ MarkersDecided
    /\ ~OtherRenderer.raised
    /\ MarkerKeys(render_ret) = {"pre_period_start", "pre_period_end", "post_period_start"}

\* Where the two functions differ: the bounds are read from the first row by
\* add_period_markers, which fails on a frame without rows, and from the row
\* labelled 0 by _create_base_layers, which fails when plot() dropped it.
C23_BoundsLookup ==
    render_pc \in {"returned", "raised"} =>
        IF render_call.function = "add_period_markers"
        THEN render_ret.raised <=> render_call.plot_df.rows = <<>>
        ELSE render_ret.raised <=> 0 \notin Range(render_call.plot_df.index)

\* -------------------------------------------------------------------- C24
ConstantTargetError == Raise("ValueError", MsgConstant)

ObservationCountError == Raise("ValueError", MsgObservations)

CallTargetValues == {vcall.data.cells[CallTarget][i].num : i \in CallTargetObserved}

\* The targets the observation-count check can still reject: no value at
\* all, or two values that differ.
OnlyCountRejects ==
    \/ CallTargetObserved = {}
    \/ Cardinality(CallTargetObserved) = 2 /\ Cardinality(CallTargetValues) = 2

\* C24: the constant-target check comes before the observation-count check
\* and shadows it: a target with exactly one non-missing value, or with
\* non-missing values that are all equal, is rejected with the
\* constant-target error, and the at-least-3-observations error is reported
\* only for a target without a non-missing value or with exactly two
\* non-missing values that differ.
C24_ConstantShadowsCount ==
    (vpc = "returned" /\ HasTarget) =>
        /\ (Cardinality(CallTargetObserved) = 1 \/ ConstantTarget)
              => vret = ConstantTargetError
        /\ vret = ObservationCountError => OnlyCountRejects

\* What the code satisfies: the same for every target std() can reduce, a
\* column of strings failing in std() before either check.
C24_NumericTargetsOnly ==
    (vpc = "returned" /\ HasTarget) =>
        IF TargetStdRaises(vcall.data, CallTarget)
        THEN RaisedAs(vret, "TypeError")
        ELSE /\ (Cardinality(CallTargetObserved) = 1 \/ ConstantTarget)
                   <=> vret = ConstantTargetError
             /\ vret = ObservationCountError <=> OnlyCountRejects

\* -------------------------------------------------------------------- C25
ArgsTargetObserved ==
    {j \in 1..RowCount(args.data) : ~args.data.cells[ArgsTarget][j].na}

\* The table of the call passes the column checks when they are evaluated
\* over all its rows.
ArgsTablePasses ==
    /\ ArgsHasTarget
    /\ Cardinality(ArgsTargetValues) >= 2
    /\ Cardinality(ArgsTargetObserved) >= 3
    /\ \A c \in Range(args.data.columns) \ {ArgsTarget} :
          \A i \in 1..RowCount(args.data) : ~args.data.cells[c][i].na
    /\ \A c \in Range(args.data.columns) : args.data.dtype[c] = "float"

ColumnCheckMessages == {MsgNotFound, MsgConstant, MsgObservations, MsgMissing, MsgNumeric}

\* __init__ is past _validate_data_and_columns, by return or by exception.
ColumnsChecked == PeriodsAccepted /\ pc # "validate_columns"

RejectedByColumnCheck == raised.raised /\ raised.msg \in ColumnCheckMessages

PreSliceTarget == self.pre_intervention_data.cells[self.target_col]

\* C25: the constant-target and the observation-count checks look at all the
\* rows of the table, whatever the periods: a call with accepted periods is
\* rejected by a column check exactly when the whole table fails one, the
\* validated table keeps every row, and with standardization the scaler is
\* fitted on the pre-period slice as it is, so its statistics of the target
\* count the non-missing values of that slice, which may be fewer than 3.
C25_ChecksOverAllRows ==
    /\ ColumnsChecked => (RejectedByColumnCheck <=> ~ArgsTablePasses)
    /\ Constructed =>
          /\ self.data.index = args.data.index
          /\ Cardinality(ArgsTargetValues) >= 2
          /\ Cardinality(ArgsTargetObserved) >= 3
    /\ (Constructed /\ self.standardize_data) =>
          /\ self.scaler = ScalerFit(self.pre_intervention_data)
          /\ self.scaler.stats[self.target_col].n = Count(PreSliceTarget)

\* A standardized dataset whose pre-period slice has fewer than 3 non-missing
\* target values, the scaler fitted on them.
C25_Witness ==
    /\ Constructed /\ self.standardize_data
    /\ Count(PreSliceTarget) < 3
    /\ self.scaler.stats[self.target_col].n = Count(PreSliceTarget)
    /\ Cardinality(ArgsTargetObserved) > Count(PreSliceTarget)

\* A dataset whose pre-period slice has a constant target is constructed
\* without standardization only: with it, the fit on the slice fails.
C25_ConstantPreSlice ==
    (pc \in {"model_inputs", "done"} /\ StdIsZero(PreSliceTarget)) => ~self.standardize_data


====
